---- MODULE Spec2Model ----
(***************************************************************************)
(* The specification executor of gauge (package execution): execute()      *)
(* walks one specification, drives the runner through blocking             *)
(* request/response round trips and builds the SpecResult.                 *)
(*                                                                         *)
(* The executor is one sequential process.  pc is its position; it blocks  *)
(* at every call of conn.GetResponseForGaugeMessage with a request on the  *)
(* channel, and RunnerRespond (the worker, or the transport) answers.      *)
(* Optional protobuf scalars and nillable pointers are sequences of length *)
(* 0 (nil) or 1.  ProtoExecutionResult objects live in heap, because       *)
(* setExecutionResultForConcept stores and writes through pointers to      *)
(* them; address 0 is the nil pointer.                                     *)
(***************************************************************************)
EXTENDS Integers, Sequences, FiniteSets

\* Bounds of the model.
MaxFaults == 2      \* responses of one run that are not a passing status
MaxRows == 2        \* rows of the data table of the table-driven input
MaxTime == 2        \* largest execution time of ExecuteStep in the timed input
MaxText == 5        \* longest row-range text given to getDataTableRowsRange
MaxRowCount == 4    \* largest row count given to getDataTableRowsRange

None == <<>>
Some(v) == <<v>>

\* proto getters: the zero value when the field (or the receiver) is nil
GetBool(opt) == IF opt = None THEN FALSE ELSE opt[1]
GetInt(opt) == IF opt = None THEN 0 ELSE opt[1]

-----------------------------------------------------------------------------
(* The static specification tree (gauge.Specification, gauge.Step).        *)

Step(name) == [kind |-> "StepKind", isConcept |-> FALSE, name |-> name, conceptSteps |-> <<>>]
Concept(name, steps) == [kind |-> "StepKind", isConcept |-> TRUE, name |-> name, conceptSteps |-> steps]
Comment == [kind |-> "CommentKind", isConcept |-> FALSE, name |-> "comment", conceptSteps |-> <<>>]
TearDown == [kind |-> "TearDownKind", isConcept |-> FALSE, name |-> "teardown", conceptSteps |-> <<>>]

\* one validation error of the skip map
ValidationErr(name) == [fileName |-> "a.spec", lineNo |-> 1, message |-> "no impl", lineText |-> name]

\* context, body and two tear-down steps, no data table
FlatSpecification ==
  [ contexts |-> << Step("c1") >>,
    scenarios |-> << << Step("s1"), Comment >> >>,
    tearDownSteps |-> << Step("t1"), Step("t2") >>,
    specItems |-> << Comment, TearDown >>,
    rowCount |-> 0 ]

\* two scenarios, no data table
TwoScenarioSpecification ==
  [ contexts |-> << >>,
    scenarios |-> << << Step("s1") >>, << Step("s2") >> >>,
    tearDownSteps |-> << >>,
    specItems |-> << >>,
    rowCount |-> 0 ]

\* a concept with three children, the second a nested concept
ConceptSpecification ==
  [ contexts |-> << >>,
    scenarios |-> << << Concept("k1", << Step("a1"), Concept("k2", << Step("b1"), Step("b2") >>), Step("a3") >>) >> >>,
    tearDownSteps |-> << >>,
    specItems |-> << >>,
    rowCount |-> 0 ]

\* a concept whose three children are plain steps; the tear-down is an empty concept
PlainConceptSpecification ==
  [ contexts |-> << >>,
    scenarios |-> << << Concept("k1", << Step("a1"), Step("a2"), Step("a3") >>) >> >>,
    tearDownSteps |-> << Concept("k0", << >>) >>,
    specItems |-> << >>,
    rowCount |-> 0 ]

\* a data table of MaxRows rows driving two scenarios
TableSpecification ==
  [ contexts |-> << >>,
    scenarios |-> << << >>, << Comment >> >>,
    tearDownSteps |-> << >>,
    specItems |-> << >>,
    rowCount |-> MaxRows ]

\* no scenario at all
EmptySpecification ==
  [ contexts |-> << Step("c1") >>,
    scenarios |-> << >>,
    tearDownSteps |-> << >>,
    specItems |-> << Comment >>,
    rowCount |-> 0 ]

\* the row ranges 0 <= start <= end < n that a caller selects for a table of n rows
ValidRanges(n) ==
  { r \in [start : 0..(n - 1), end : 0..(n - 1)] : r.start <= r.end }

\* the scenario skip map with the scenarios of set S in it
ScenarioErrs(S) == [i \in S |-> << ValidationErr("scenario") >>]

\* the three independent skip maps of validationErrMaps, for one specification
ErrMaps(scenarioSets, stepSets) ==
  { [specErrs |-> sp, scenarioErrs |-> ScenarioErrs(sc), stepErrs |-> st] :
      sp \in BOOLEAN, sc \in scenarioSets, st \in stepSets }

NoRange == [start |-> 0, end |-> 0]

\* arguments of newSpecExecutor, and the times the worker may report for ExecuteStep
Inputs ==
  { [specification |-> FlatSpecification, dataTableIndex |-> NoRange,
     errMap |-> m, times |-> {1}] :
       m \in ErrMaps({ {}, {1} }, { {}, {"c1", "s1", "t2"} }) }
  \cup
  { [specification |-> TwoScenarioSpecification, dataTableIndex |-> NoRange,
     errMap |-> m, times |-> {1}] :
       m \in ErrMaps(SUBSET {1, 2}, { {} }) }
  \cup
  { [specification |-> ConceptSpecification, dataTableIndex |-> NoRange,
     errMap |-> m, times |-> {1}] :
       m \in ErrMaps({ {} }, { {}, {"a1", "b2"} }) }
  \cup
  { [specification |-> PlainConceptSpecification, dataTableIndex |-> NoRange,
     errMap |-> m, times |-> 1..MaxTime] :
       m \in ErrMaps({ {} }, { {} }) }
  \cup
  { [specification |-> EmptySpecification, dataTableIndex |-> NoRange,
     errMap |-> m, times |-> {1}] :
       m \in ErrMaps({ {} }, { {}, {"c1"} }) }
  \cup
  { [specification |-> TableSpecification, dataTableIndex |-> r,
     errMap |-> m, times |-> {1}] :
       r \in ValidRanges(MaxRows),
       m \in ErrMaps({ {}, {1} }, { {} }) }

-----------------------------------------------------------------------------
(* getDataTableRowsRange.  A text is a sequence of one-character strings.  *)

DigitChars == << "0", "1", "2", "3", "4", "5", "6", "7", "8", "9" >>

IsDigit(c) == \E d \in 1..Len(DigitChars) : DigitChars[d] = c

DigitValue(c) == (CHOOSE d \in 1..Len(DigitChars) : DigitChars[d] = c) - 1

\* the characters the row-range texts are made of
Alphabet == { "0", "1", "3", "a", "-" }

Texts == UNION { [1..n -> Alphabet] : n \in 0..MaxText }

\* strings.Split(text, "-"): the parts between the hyphens; one part when there is none
RECURSIVE Split(_)
Split(text) ==
  IF \A k \in 1..Len(text) : text[k] # "-"
    THEN << text >>
    ELSE LET k == CHOOSE i \in 1..Len(text) :
                    text[i] = "-" /\ \A j \in 1..(i - 1) : text[j] # "-"
         IN << SubSeq(text, 1, k - 1) >> \o Split(SubSeq(text, k + 1, Len(text)))

\* the integer a decimal text denotes
RECURSIVE DecimalValue(_)
DecimalValue(text) ==
  IF text = << >> THEN 0
  ELSE 10 * DecimalValue(SubSeq(text, 1, Len(text) - 1)) + DigitValue(text[Len(text)])

\* the integer parse of validateTableRowsRange: None when text is not an integer
ParseInt(text) ==
  IF text # << >> /\ \A k \in 1..Len(text) : IsDigit(text[k])
    THEN Some(DecimalValue(text)) ELSE None

\* validateTableRowsRange: both bounds integers within [0, rowCount - 1]
ValidateTableRowsRange(start, end, rowCount) ==
  LET startIndex == ParseInt(start)
      endIndex == ParseInt(end)
  IN IF /\ startIndex # None /\ endIndex # None
        /\ startIndex[1] <= rowCount - 1
        /\ endIndex[1] <= rowCount - 1
       THEN [startIndex |-> startIndex[1], endIndex |-> endIndex[1], err |-> FALSE]
       ELSE [startIndex |-> 0, endIndex |-> 0, err |-> TRUE]

RangeError == [range |-> [start |-> 0, end |-> 0], err |-> TRUE]

GetDataTableRowsRangeOfPairs(tableRows, rowCount) ==
  LET indexRanges == Split(tableRows)
      valid == ValidateTableRowsRange(indexRanges[1], indexRanges[Len(indexRanges)], rowCount)
  IN IF valid.err THEN RangeError
     ELSE [range |-> [start |-> valid.startIndex, end |-> valid.endIndex], err |-> FALSE]

GetDataTableRowsRange(tableRows, rowCount) ==
  LET indexRanges == Split(tableRows)
      valid == IF Len(indexRanges) = 2
                 THEN ValidateTableRowsRange(indexRanges[1], indexRanges[2], rowCount)
                 ELSE ValidateTableRowsRange(tableRows, tableRows, rowCount)
  IN IF Len(indexRanges) \notin {1, 2} THEN RangeError
     ELSE IF valid.err THEN RangeError
     ELSE [range |-> [start |-> valid.startIndex, end |-> valid.endIndex], err |-> FALSE]

\* the calls of getDataTableRowsRange that are checked
RangeCalls ==
  [ tableRows : Texts, rowCount : 0..MaxRowCount, returned : { None } ]

NoRangeCall == [ tableRows |-> << >>, rowCount |-> 0, returned |-> None ]

-----------------------------------------------------------------------------
VARIABLES
  input,                  \* the arguments of newSpecExecutor, fixed for the run
  pc,                     \* the executor's position
  currentTableRow,        \* specExecutor.currentTableRow
  currentExecutionInfo,   \* specExecutor.currentExecutionInfo
  specResult,             \* specExecutor.specResult
  dataTableScenarioExecutionResult,  \* local of executeTableDrivenSpec
  scenarioResults,        \* local of executeScenarios
  scenarioIndex,          \* loop index of executeScenarios
  scenarioResult,         \* local of executeScenario
  phase,                  \* the item list executeItems walks: contexts, scenarioItems, tearDownSteps
  path,                   \* indices from that list down to the item being executed
  failure,                \* the value the last executeItem / executeItems returned
  beforeHookStatus,       \* local of executeStep
  protoStepExecResult,    \* local of executeStep
  heap,                   \* the ProtoExecutionResult objects, by address
  request,                \* the request outstanding on the runner connection
  response,               \* the answer the executor has not read yet
  sent,                   \* every message written to the runner connection, in order
  notified,               \* every message given to pluginHandler.NotifyPlugins, in order
  reported,               \* every call of the console reporter, in order
  received,               \* the answer to each message of sent, in order
  finished,               \* what each executed step and concept returned, in order
  faults,                 \* answers so far that were not a passing status
  parent,                 \* Step.Parent of every concept step of the template that is a child of a concept
  rangeCall               \* a call of getDataTableRowsRange: its arguments and what it returned

vars == << input, pc, currentTableRow, currentExecutionInfo, specResult,
           dataTableScenarioExecutionResult, scenarioResults, scenarioIndex,
           scenarioResult, phase, path, failure, beforeHookStatus,
           protoStepExecResult, heap, request, response, sent, notified,
           reported, received, finished, faults, parent, rangeCall >>

specification == input.specification
dataTableIndex == input.dataTableIndex
errMap == input.errMap

-----------------------------------------------------------------------------
(* Results: gauge_messages.ProtoExecutionResult, ProtoStepExecutionResult, *)
(* ProtoItem, and package result.                                          *)

NilExecutionResult ==
  [failed |-> None, executionTime |-> None, errorMessage |-> None, recoverableError |-> None]

NilStepExecutionResult ==
  [executionResult |-> 0, skipped |-> None, skippedReason |-> None,
   preHookFailure |-> None, postHookFailure |-> None]

\* *addr, reading a nil pointer through the generated getters
Deref(h, addr) == IF addr = 0 THEN NilExecutionResult ELSE h[addr]

\* x.GetExecutionResult() of an optional ProtoStepExecutionResult
GetExecutionResult(optStepExecResult) ==
  IF optStepExecResult = None THEN 0 ELSE optStepExecResult[1].executionResult

ErrorResult(message) ==
  [failed |-> Some(TRUE), executionTime |-> None, errorMessage |-> Some(message),
   recoverableError |-> Some(FALSE)]

\* what executeAndGetStatus makes of the answer of conn.GetResponseForGaugeMessage
ExecuteAndGetStatus(resp) ==
  IF resp.err
    THEN [failed |-> Some(TRUE), executionTime |-> None,
          errorMessage |-> Some("transport error"), recoverableError |-> None]
    ELSE IF resp.messageType = "ExecutionStatusResponse"
           THEN IF resp.executionResult = None
                  THEN ErrorResult("ProtoExecutionResult obtained is nil")
                  ELSE resp.executionResult[1]
           ELSE ErrorResult("Expected ExecutionStatusResponse")

GetProtoHookFailure(status) ==
  [errorMessage |-> status.errorMessage]

NewSpecResult ==
  [ scenarioSkippedCount |-> 0, skipped |-> FALSE, isFailed |-> FALSE,
    executionTime |-> 0, preHookFailure |-> None, postHookFailure |-> None,
    specItems |-> <<>>, scenarioResults |-> <<>>, tableDrivenResults |-> <<>> ]

NewProtoScenario(index) ==
  [ heading |-> index, row |-> currentTableRow, failed |-> FALSE, skipped |-> None, skipErrors |-> <<>>,
    executionTime |-> 0, preHookFailure |-> None, postHookFailure |-> None,
    contexts |-> <<>>, tearDownSteps |-> <<>>, scenarioItems |-> <<>> ]

\* ExecTimeTracker.AddExecTime, on a SpecResult or a ScenarioResult
AddExecTime(result, t) == [result EXCEPT !.executionTime = @ + t]

\* result.AddPreHook / result.AddPostHook: a failed hook is recorded and fails the result
AddPreHook(result, status) ==
  IF GetBool(status.failed)
    THEN [result EXCEPT !.preHookFailure = Some(GetProtoHookFailure(status)),
                        !.failed = TRUE]
    ELSE result

AddPostHook(result, status) ==
  IF GetBool(status.failed)
    THEN [result EXCEPT !.postHookFailure = Some(GetProtoHookFailure(status)),
                        !.failed = TRUE]
    ELSE result

AddSpecPreHook(result, status) ==
  [result EXCEPT !.preHookFailure = Some(GetProtoHookFailure(status)), !.isFailed = TRUE]

AddSpecPostHook(result, status) ==
  [result EXCEPT !.postHookFailure = Some(GetProtoHookFailure(status)), !.isFailed = TRUE]

SetFailure(result) == [result EXCEPT !.failed = TRUE]

RECURSIVE SumTimes(_, _)
SumTimes(results, i) ==
  IF i > Len(results) THEN 0 ELSE results[i].executionTime + SumTimes(results, i + 1)

\* SpecResult.AddScenarioResults
AddScenarioResults(result, results) ==
  [result EXCEPT !.scenarioResults = @ \o results,
                 !.isFailed = @ \/ (\E i \in 1..Len(results) : results[i].failed),
                 !.executionTime = @ + SumTimes(results, 1)]

RECURSIVE FlattenRows(_, _)
FlattenRows(rows, i) ==
  IF i > Len(rows) THEN <<>> ELSE rows[i] \o FlattenRows(rows, i + 1)

\* SpecResult.AddTableDrivenScenarioResult
AddTableDrivenScenarioResult(result, rows) ==
  [result EXCEPT !.tableDrivenResults = rows,
                 !.isFailed = @ \/ (\E i \in 1..Len(rows) : \E j \in 1..Len(rows[i]) : rows[i][j].failed),
                 !.executionTime = @ + SumTimes(FlattenRows(rows, 1), 1)]

-----------------------------------------------------------------------------
(* Resolution of the static items into executable proto items.             *)

\* gauge.ConvertToProtoItem
RECURSIVE ConvertToProtoItem(_)
ConvertToProtoItem(item) ==
  [ itemType |-> IF item.kind = "StepKind"
                   THEN (IF item.isConcept THEN "Concept" ELSE "Step")
                   ELSE "Comment",
    name |-> item.name,
    stepExecutionResult |-> None,
    conceptExecutionResult |-> None,
    steps |-> [i \in 1..Len(item.conceptSteps) |-> ConvertToProtoItem(item.conceptSteps[i])] ]

\* setSkipInfo: the StepExecutionResult it installs on the proto step
SetSkipInfo(step) ==
  IF step.name \in errMap.stepErrs
    THEN [NilStepExecutionResult EXCEPT !.skipped = Some(TRUE),
                                        !.skippedReason = Some("Step implemenatation not found")]
    ELSE [NilStepExecutionResult EXCEPT !.skipped = Some(FALSE)]

ResolveToProtoStepItem(step) ==
  [ConvertToProtoItem(step) EXCEPT !.stepExecutionResult = Some(SetSkipInfo(step))]

RECURSIVE ResolveToProtoConceptItem(_)
ResolveToProtoConceptItem(concept) ==
  [ConvertToProtoItem(concept) EXCEPT
     !.stepExecutionResult = Some([NilStepExecutionResult EXCEPT !.skipped = Some(FALSE)]),
     !.steps = [i \in 1..Len(concept.conceptSteps) |->
                  IF concept.conceptSteps[i].isConcept
                    THEN ResolveToProtoConceptItem(concept.conceptSteps[i])
                    ELSE ResolveToProtoStepItem(concept.conceptSteps[i])]]

ResolveToProtoItem(item) ==
  IF item.kind = "StepKind"
    THEN IF item.isConcept THEN ResolveToProtoConceptItem(item)
                           ELSE ResolveToProtoStepItem(item)
    ELSE ConvertToProtoItem(item)

RECURSIVE ResolveItems(_)
ResolveItems(items) ==
  IF items = <<>> THEN <<>>
  ELSE IF Head(items).kind # "TearDownKind"
         THEN << ResolveToProtoItem(Head(items)) >> \o ResolveItems(Tail(items))
         ELSE ResolveItems(Tail(items))

GetContextItemsForScenarioExecution(steps) == ResolveItems(steps)

AddAllItemsForScenarioExecution(index, result) ==
  [result EXCEPT
     !.contexts = GetContextItemsForScenarioExecution(specification.contexts),
     !.tearDownSteps = GetContextItemsForScenarioExecution(specification.tearDownSteps),
     !.scenarioItems = ResolveItems(specification.scenarios[index])]

\* the skip errors setSkipInfoInResult formats: "<file>:<line>: <error>. <lineText>"
SkipErrors(index) ==
  IF index \in DOMAIN errMap.scenarioErrs
    THEN [k \in 1..Len(errMap.scenarioErrs[index]) |->
            LET err == errMap.scenarioErrs[index][k]
            IN << err.fileName, ":", err.lineNo, ": ", err.message, ". ", err.lineText >>]
    ELSE <<>>

\* setSkipInfoInResult: its effect on the scenario result
SetSkipInfoInResult(result, index) ==
  [result EXCEPT !.skipped = Some(TRUE), !.skipErrors = SkipErrors(index)]

CountSkippedScenarioNot(result) == result

\* setSkipInfoInResult: its effect on specResult
CountSkippedScenario(result) ==
  [result EXCEPT !.scenarioSkippedCount = @ + 1]

GetSkippedScenarioResultUnmarked(index) ==
  AddAllItemsForScenarioExecution(index, NewProtoScenario(index))

GetSkippedScenarioResult(index) ==
  SetSkipInfoInResult(AddAllItemsForScenarioExecution(index, NewProtoScenario(index)), index)

RECURSIVE SkippedScenarioResults(_)
SkippedScenarioResults(n) ==
  IF n = 0 THEN <<>> ELSE Append(SkippedScenarioResults(n - 1), GetSkippedScenarioResult(n))

RECURSIVE CountSkippedScenarios(_, _)
CountSkippedScenarios(result, n) ==
  IF n = 0 THEN result ELSE CountSkippedScenario(CountSkippedScenarios(result, n - 1))

GetSkippedSpecResult(result) ==
  LET n == Len(specification.scenarios)
  IN [AddScenarioResults(CountSkippedScenarios(result, n), SkippedScenarioResults(n))
        EXCEPT !.skipped = TRUE]

-----------------------------------------------------------------------------
(* The parent back-references of the shared template (gauge.Step.Parent).  *)

\* a pointer to the concept step of the template itself
TemplateRef(name) == [object |-> "template", concept |-> name, frame |-> << >>]

\* a pointer to the by-value copy of a concept that one call of
\* resolveToProtoConceptItem works on; frame tells the calls apart
CopyRef(name, frame) == [object |-> "copy", concept |-> name, frame |-> frame]

\* the (child, parent) pairs of the concept steps nested in concept
RECURSIVE NestedIn(_)
NestedIn(concept) ==
  UNION { IF concept.conceptSteps[j].isConcept
            THEN { << concept.conceptSteps[j].name, concept.name >> }
                   \cup NestedIn(concept.conceptSteps[j])
            ELSE { } : j \in 1..Len(concept.conceptSteps) }

RECURSIVE FlattenItems(_, _)
FlattenItems(lists, i) ==
  IF i > Len(lists) THEN << >> ELSE lists[i] \o FlattenItems(lists, i + 1)

\* Step.Parent of the nested concept steps as the parser leaves them
TemplateParent(spec) ==
  LET items == spec.contexts \o spec.tearDownSteps \o spec.specItems
                 \o FlattenItems(spec.scenarios, 1)
      pairs == UNION { NestedIn(items[i]) : i \in 1..Len(items) }
  IN [name \in { pr[1] : pr \in pairs } |->
        TemplateRef((CHOOSE pr \in pairs : pr[1] = name)[2])]

\* resolveToProtoConceptItem: what its loop over the children from child j on
\* writes to Step.Parent; the copy it works on is the one of this frame
RECURSIVE ResolveConceptParent(_, _, _, _)
ResolveConceptParent(concept, j, p, frame) ==
  IF j > Len(concept.conceptSteps) THEN p
  ELSE LET step == concept.conceptSteps[j]
       IN IF step.isConcept
            THEN ResolveConceptParent(
                   concept, j + 1,
                   ResolveConceptParent(step, 1,
                                        [p EXCEPT ![step.name] = CopyRef(concept.name, frame)],
                                        Append(frame, j)),
                   frame)
            ELSE ResolveConceptParent(concept, j + 1, p, frame)

\* resolveItems: what resolving items from item i on writes to Step.Parent
RECURSIVE ResolveItemsParent(_, _, _, _)
ResolveItemsParent(items, i, p, frame) ==
  IF i > Len(items) THEN p
  ELSE ResolveItemsParent(
         items, i + 1,
         IF items[i].kind = "StepKind" /\ items[i].isConcept
           THEN ResolveConceptParent(items[i], 1, p, Append(frame, i))
           ELSE p,
         frame)

\* addAllItemsForScenarioExecution: what it writes to Step.Parent
AddAllItemsParent(index, p, row) ==
  LET contexts == ResolveItemsParent(specification.contexts, 1, p, << row, index, "contexts" >>)
      tearDown == ResolveItemsParent(specification.tearDownSteps, 1, contexts,
                                     << row, index, "tearDownSteps" >>)
  IN ResolveItemsParent(specification.scenarios[index], 1, tearDown,
                        << row, index, "scenarioItems" >>)

\* getSkippedSpecResult: what resolving scenarios 1..n writes to Step.Parent
RECURSIVE SkippedScenariosParent(_, _)
SkippedScenariosParent(n, p) ==
  IF n = 0 THEN p ELSE AddAllItemsParent(n, SkippedScenariosParent(n - 1, p), 0)

-----------------------------------------------------------------------------
(* Execution Info, messages, the runner connection, plugins, the reporter. *)

NewExecutionInfo ==
  [ currentSpec |-> [isFailed |-> FALSE], currentScenario |-> None, currentStep |-> None ]

SetSpecFailure(info) == [info EXCEPT !.currentSpec.isFailed = TRUE]

SetScenarioFailureOnly(info) ==
  [info EXCEPT !.currentScenario = Some([@[1] EXCEPT !.isFailed = TRUE])]

SetScenarioFailure(info) ==
  [SetSpecFailure(info) EXCEPT !.currentScenario = Some([@[1] EXCEPT !.isFailed = TRUE])]

SetStepFailure(info) ==
  [SetScenarioFailure(info) EXCEPT !.currentStep = Some([@[1] EXCEPT !.isFailed = TRUE])]

\* a hook message: it carries the Execution Info as it stands when it is written
HookMessage(type, info) ==
  [messageType |-> type, currentExecutionInfo |-> Some(info), executeStepRequest |-> None]

\* createStepRequest and the ExecuteStep message built from it
ExecuteStepMessage(protoStep) ==
  [messageType |-> "ExecuteStep", currentExecutionInfo |-> None,
   executeStepRequest |-> Some([actualStepText |-> protoStep.name])]

\* where the executor is when it writes a message: row, scenario, item list and item
Position(scope) ==
  [ row |-> currentTableRow,
    scenario |-> IF scope = "spec" THEN 0 ELSE scenarioIndex,
    item |-> IF scope = "step" THEN << phase >> \o path ELSE << >> ]

\* conn.GetResponseForGaugeMessage, the writing half: the executor now blocks
WriteGaugeMessage(message, scope) ==
  /\ request' = Some(message)
  /\ sent' = Append(sent, [message |-> message, at |-> Position(scope)])

ExecuteHookUnnotified(message, scope) ==
  /\ UNCHANGED notified
  /\ WriteGaugeMessage(message, scope)

\* executeHook, executeBeforeStepHook, executeAfterStepHook: plugins first, then the runner
ExecuteHook(message, scope) ==
  /\ notified' = Append(notified, [message |-> message, at |-> Position(scope)])
  /\ WriteGaugeMessage(message, scope)

NoMessage == UNCHANGED << request, sent, notified >>

ReadResponseLeftThere == UNCHANGED response

\* conn.GetResponseForGaugeMessage, the reading half: the answer is taken off the channel
ReadResponse == response' = None

Event(name, arg) == [event |-> name, arg |-> arg]

\* printStatus
PrintStatus(status) ==
  << Event("Error", status.errorMessage), Event("Error", "Stacktrace") >>

\* the execution times the worker may report for the outstanding request
Times == IF request[1].messageType = "ExecuteStep" THEN input.times ELSE {1}

\* the execution results a worker may report inside an ExecutionStatusResponse
PassingResults ==
  { [failed |-> Some(FALSE), executionTime |-> Some(t), errorMessage |-> None,
     recoverableError |-> None] : t \in Times }

FailingResults ==
  { [failed |-> Some(TRUE), executionTime |-> Some(t), errorMessage |-> Some("failed"),
     recoverableError |-> Some(TRUE)] : t \in Times }

PassingResponses ==
  { [err |-> FALSE, messageType |-> "ExecutionStatusResponse", executionResult |-> Some(r)] :
      r \in PassingResults }

\* a transport error, a status without a result, a message of another type
BrokenResponses ==
  { [err |-> TRUE, messageType |-> "none", executionResult |-> None],
    [err |-> FALSE, messageType |-> "ExecutionStatusResponse", executionResult |-> None],
    [err |-> FALSE, messageType |-> "ErrorResponse", executionResult |-> None] }

\* the answers that executeAndGetStatus turns into a failed result; the runs over a
\* data table are answered with statuses only
FaultyResponses ==
  { [err |-> FALSE, messageType |-> "ExecutionStatusResponse", executionResult |-> Some(r)] :
      r \in FailingResults }
  \cup
  (IF specification.rowCount = 0 THEN BrokenResponses ELSE { })

-----------------------------------------------------------------------------
\* the executor's own state after newSpecExecutor
InitExecutor ==
  /\ currentTableRow = 0
  /\ currentExecutionInfo = NewExecutionInfo
  /\ specResult = NewSpecResult
  /\ dataTableScenarioExecutionResult = <<>>
  /\ scenarioResults = <<>>
  /\ scenarioIndex = 0
  /\ scenarioResult = [NewProtoScenario(0) EXCEPT !.row = 0]
  /\ phase = "none"
  /\ path = <<>>
  /\ failure = FALSE
  /\ beforeHookStatus = NilExecutionResult
  /\ protoStepExecResult = NilStepExecutionResult
  /\ heap = <<>>
  /\ request = None
  /\ response = None
  /\ sent = <<>>
  /\ notified = <<>>
  /\ reported = <<>>
  /\ received = <<>>
  /\ finished = <<>>
  /\ faults = 0
  /\ parent = TemplateParent(specification)

Init ==
  /\ input \in Inputs
  /\ pc = "execute"
  /\ rangeCall = NoRangeCall
  /\ InitExecutor

scenarioLocals == << scenarioResult, phase, path, failure >>
stepLocals == << beforeHookStatus, protoStepExecResult >>
loopLocals == << dataTableScenarioExecutionResult, scenarioResults, scenarioIndex >>

\* the runner (or the transport) answers the outstanding request
RunnerRespond ==
  /\ request # None
  /\ response = None
  /\ \/ /\ response' \in { Some(r) : r \in PassingResponses }
        /\ UNCHANGED faults
     \/ /\ faults < MaxFaults
        /\ response' \in { Some(r) : r \in FaultyResponses }
        /\ faults' = faults + 1
  /\ request' = None
  /\ received' = Append(received, response'[1])
  /\ UNCHANGED << input, parent, rangeCall, pc, currentTableRow, currentExecutionInfo, specResult,
                  loopLocals, scenarioLocals, stepLocals, heap, sent, notified, reported,
                  finished >>

\* execute, up to the before-spec hook (or the skipped result)
Execute ==
  /\ pc = "execute"
  /\ currentExecutionInfo' = NewExecutionInfo
  /\ LET result == [NewSpecResult EXCEPT !.specItems = ResolveItems(specification.specItems)]
     IN IF errMap.specErrs
          THEN /\ specResult' = GetSkippedSpecResult(result)
               /\ pc' = "done"
               /\ NoMessage
               /\ UNCHANGED reported
          ELSE /\ specResult' = result
               /\ reported' = Append(reported, Event("SpecStart", "spec"))
               /\ ExecuteHook(HookMessage("SpecExecutionStarting", NewExecutionInfo), "spec")
               /\ pc' = "executeBeforeSpecHook"
  /\ LET resolved == ResolveItemsParent(specification.specItems, 1, parent, << 0, 0, "specItems" >>)
     IN parent' = IF errMap.specErrs
                    THEN SkippedScenariosParent(Len(specification.scenarios), resolved)
                    ELSE resolved
  /\ UNCHANGED << input, rangeCall, currentTableRow, loopLocals, scenarioLocals, stepLocals,
                  heap, response,
                  received, finished, faults >>

ExecuteAfterSpecHookLeftOut(info) ==
  /\ NoMessage
  /\ pc' = "done"

\* executeAfterSpecHook, the call
ExecuteAfterSpecHook(info) ==
  /\ ExecuteHook(HookMessage("SpecExecutionEnding", info), "spec")
  /\ pc' = "executeAfterSpecHook"

MoreRowsExclusive == currentTableRow < dataTableIndex.end

\* executeTableDrivenSpec: the row loop starts at FirstRow and goes on while MoreRows
FirstRow == dataTableIndex.start
MoreRows == currentTableRow <= dataTableIndex.end

BeforeSpecHookNeverFailed(status) == FALSE

\* whether execute takes the before-spec hook to have failed
BeforeSpecHookFailed(status) == GetBool(status.failed)

\* execute, from the answer to the before-spec hook to the next call
BeforeSpecHookReturn ==
  /\ pc = "executeBeforeSpecHook"
  /\ response # None
  /\ ReadResponse
  /\ LET beforeSpecHookStatus == ExecuteAndGetStatus(response[1])
         timed == AddExecTime(specResult, GetInt(beforeSpecHookStatus.executionTime))
     IN IF BeforeSpecHookFailed(beforeSpecHookStatus)
          THEN /\ specResult' = AddSpecPreHook(timed, beforeSpecHookStatus)
               /\ currentExecutionInfo' = SetSpecFailure(currentExecutionInfo)
               /\ reported' = reported \o PrintStatus(beforeSpecHookStatus)
               /\ ExecuteAfterSpecHook(currentExecutionInfo')
               /\ UNCHANGED << currentTableRow, loopLocals >>
          ELSE /\ specResult' = timed
               /\ UNCHANGED << currentExecutionInfo, reported >>
               /\ NoMessage
               /\ IF specification.rowCount = 0
                    THEN /\ pc' = "executeScenarios"
                         /\ scenarioIndex' = 1
                         /\ scenarioResults' = <<>>
                         /\ UNCHANGED << currentTableRow, dataTableScenarioExecutionResult >>
                    ELSE /\ pc' = "executeTableDrivenSpec"
                         /\ currentTableRow' = FirstRow
                         /\ dataTableScenarioExecutionResult' = <<>>
                         /\ UNCHANGED << scenarioIndex, scenarioResults >>
  /\ UNCHANGED << input, parent, rangeCall, scenarioLocals, stepLocals, heap, received, finished, faults >>

\* executeTableDrivenSpec: one pass of the row loop, up to executeScenarios
ExecuteTableDrivenSpecRow ==
  /\ pc = "executeTableDrivenSpec"
  /\ MoreRows
  /\ reported' = Append(reported, Event("DataTable", currentTableRow))
  /\ scenarioIndex' = 1
  /\ scenarioResults' = <<>>
  /\ pc' = "executeScenarios"
  /\ NoMessage
  /\ UNCHANGED << input, parent, rangeCall, currentTableRow, currentExecutionInfo, specResult,
                  dataTableScenarioExecutionResult, scenarioLocals, stepLocals,
                  heap, response,
                  received, finished, faults >>

\* executeTableDrivenSpec: the loop is over; execute goes on to the after-spec hook
ExecuteTableDrivenSpecReturn ==
  /\ pc = "executeTableDrivenSpec"
  /\ ~MoreRows
  /\ specResult' = AddTableDrivenScenarioResult(specResult, dataTableScenarioExecutionResult)
  /\ ExecuteAfterSpecHook(currentExecutionInfo)
  /\ UNCHANGED << input, parent, rangeCall, currentTableRow, currentExecutionInfo, loopLocals,
                  scenarioLocals, stepLocals, heap, response, reported,
                  received, finished, faults >>

MoreScenariosUnlessFailed ==
  scenarioIndex <= Len(specification.scenarios) /\ ~currentExecutionInfo.currentSpec.isFailed

\* executeScenarios: the loop over the scenarios goes on while MoreScenarios
MoreScenarios == scenarioIndex <= Len(specification.scenarios)

\* executeScenarios: the loop is over; back in execute or in executeTableDrivenSpec
ExecuteScenariosReturn ==
  /\ pc = "executeScenarios"
  /\ ~MoreScenarios
  /\ IF specification.rowCount = 0
       THEN /\ specResult' = AddScenarioResults(specResult, scenarioResults)
            /\ ExecuteAfterSpecHook(currentExecutionInfo)
            /\ UNCHANGED << currentTableRow, dataTableScenarioExecutionResult >>
       ELSE /\ dataTableScenarioExecutionResult' =
                 Append(dataTableScenarioExecutionResult, scenarioResults)
            /\ currentTableRow' = currentTableRow + 1
            /\ pc' = "executeTableDrivenSpec"
            /\ NoMessage
            /\ UNCHANGED specResult
  /\ UNCHANGED << input, parent, rangeCall, currentExecutionInfo, scenarioResults, scenarioIndex,
                  scenarioLocals, stepLocals, heap, response, reported,
                  received, finished, faults >>

SpecSkippedOverOne(result) == result.scenarioSkippedCount > 1

\* the Skipped flag execute leaves on the result
SpecSkipped(result) == result.scenarioSkippedCount > 0

\* execute, from the answer to the after-spec hook to its return
AfterSpecHookReturn ==
  /\ pc = "executeAfterSpecHook"
  /\ response # None
  /\ ReadResponse
  /\ LET afterSpecHookStatus == ExecuteAndGetStatus(response[1])
         timed == AddExecTime(specResult, GetInt(afterSpecHookStatus.executionTime))
         hooked == IF GetBool(afterSpecHookStatus.failed)
                     THEN AddSpecPostHook(timed, afterSpecHookStatus)
                     ELSE timed
     IN /\ specResult' = [hooked EXCEPT !.skipped = SpecSkipped(hooked)]
        /\ currentExecutionInfo' = IF GetBool(afterSpecHookStatus.failed)
                                     THEN SetSpecFailure(currentExecutionInfo)
                                     ELSE currentExecutionInfo
        /\ reported' = (IF GetBool(afterSpecHookStatus.failed)
                          THEN reported \o PrintStatus(afterSpecHookStatus)
                          ELSE reported) \o << Event("SpecEnd", "spec") >>
  /\ pc' = "done"
  /\ NoMessage
  /\ UNCHANGED << input, parent, rangeCall, currentTableRow, loopLocals, scenarioLocals, stepLocals,
                  heap, received, finished, faults >>

-----------------------------------------------------------------------------
(* The item tree of the scenario being executed.                           *)

ItemList(result, list) ==
  IF list = "contexts" THEN result.contexts
  ELSE IF list = "scenarioItems" THEN result.scenarioItems
  ELSE IF list = "tearDownSteps" THEN result.tearDownSteps
  ELSE << >>

Front(p) == SubSeq(p, 1, Len(p) - 1)
Last(p) == p[Len(p)]
NextSibling(p) == [p EXCEPT ![Len(p)] = @ + 1]

RECURSIVE ItemAt(_, _)
ItemAt(items, p) ==
  IF Len(p) = 1 THEN items[p[1]] ELSE ItemAt(items[p[1]].steps, Tail(p))

RECURSIVE SetItemAt(_, _, _)
SetItemAt(items, p, item) ==
  IF Len(p) = 1
    THEN [items EXCEPT ![p[1]] = item]
    ELSE [items EXCEPT ![p[1]].steps = SetItemAt(@, Tail(p), item)]

SetItem(result, list, p, item) ==
  IF list = "contexts" THEN [result EXCEPT !.contexts = SetItemAt(@, p, item)]
  ELSE IF list = "scenarioItems" THEN [result EXCEPT !.scenarioItems = SetItemAt(@, p, item)]
  ELSE [result EXCEPT !.tearDownSteps = SetItemAt(@, p, item)]

\* the list the loop at path walks: an item list of the scenario, or a concept's steps
CurrentItems ==
  IF Len(path) = 1 THEN ItemList(scenarioResult, phase)
  ELSE ItemAt(ItemList(scenarioResult, phase), Front(path)).steps

AtEnd == Last(path) > Len(CurrentItems)
CurrentItem == CurrentItems[Last(path)]

\* the execution result an item shows to the concept that contains it
ItemExecutionResult(item) ==
  IF item.itemType = "Concept" THEN GetExecutionResult(item.conceptExecutionResult)
  ELSE IF item.itemType = "Step" THEN GetExecutionResult(item.stepExecutionResult)
  ELSE 0

\* setExecutionResultForConcept: the walk over the children from child i on
RECURSIVE ConceptResultFrom(_, _, _, _)
ConceptResultFrom(protoConcept, h, i, conceptExecutionTime) ==
  IF i > Len(protoConcept.steps)
    THEN LET result == [NilStepExecutionResult EXCEPT !.executionResult = Len(h) + 1,
                                                      !.skipped = Some(FALSE)]
         IN [ concept |-> [protoConcept EXCEPT !.conceptExecutionResult = Some(result),
                                               !.stepExecutionResult = Some(result)],
              heap |-> Append(h, [NilExecutionResult EXCEPT
                                    !.failed = Some(FALSE),
                                    !.executionTime = Some(conceptExecutionTime)]) ]
    ELSE LET step == protoConcept.steps[i]
             addr == ItemExecutionResult(step)
             total == conceptExecutionTime + GetInt(Deref(h, addr).executionTime)
         IN IF step.itemType \in {"Concept", "Step"} /\ GetBool(Deref(h, addr).failed)
              THEN LET result == [NilStepExecutionResult EXCEPT !.executionResult = addr,
                                                                !.skipped = Some(FALSE)]
                   IN [ concept |-> [protoConcept EXCEPT
                                       !.conceptExecutionResult = Some(result),
                                       !.stepExecutionResult = Some(result)],
                        heap |-> [h EXCEPT ![addr].executionTime = Some(total)] ]
              ELSE ConceptResultFrom(protoConcept, h, i + 1,
                                     IF step.itemType \in {"Concept", "Step"}
                                       THEN total ELSE conceptExecutionTime)

SetExecutionResultForConceptFromSecond(protoConcept, h) ==
  ConceptResultFrom(protoConcept, h, 2, 0)

SetExecutionResultForConcept(protoConcept, h) == ConceptResultFrom(protoConcept, h, 1, 0)

\* addExecutionTimes: the execution time after adding those of execResults
RECURSIVE AddExecutionTimes(_, _)
AddExecutionTimes(time, execResults) ==
  IF execResults = <<>> THEN time
  ELSE AddExecutionTimes(
         IF time = None THEN Some(GetInt(Head(execResults).executionTime))
                        ELSE Some(time[1] + GetInt(Head(execResults).executionTime)),
         Tail(execResults))

RECURSIVE SumItemTimes(_, _, _)
SumItemTimes(items, h, i) ==
  IF i > Len(items) THEN 0
  ELSE GetInt(Deref(h, ItemExecutionResult(items[i])).executionTime) + SumItemTimes(items, h, i + 1)

\* ScenarioResult.UpdateExecutionTime
UpdateExecutionTime(result, h) ==
  AddExecTime(result, SumItemTimes(result.contexts, h, 1)
                        + SumItemTimes(result.scenarioItems, h, 1)
                        + SumItemTimes(result.tearDownSteps, h, 1))

-----------------------------------------------------------------------------
(* Scenarios.                                                              *)

ExecuteAfterScenarioHookAtSpecEnd(info) == ExecuteAfterSpecHook(info)

\* executeAfterScenarioHook, the call
ExecuteAfterScenarioHook(info) ==
  /\ ExecuteHook(HookMessage("ScenarioExecutionEnding", info), "scenario")
  /\ pc' = "executeAfterScenarioHook"

SetCurrentScenarioInNewInfo(info, index) ==
  [NewExecutionInfo EXCEPT !.currentScenario = Some([name |-> index, isFailed |-> FALSE])]

\* executeScenario: the Execution Info gets a new current scenario, not failed
SetCurrentScenario(info, index) ==
  [info EXCEPT !.currentScenario = Some([name |-> index, isFailed |-> FALSE])]

\* executeScenarios calls executeScenario: up to the before-scenario hook, or the skip
ExecuteScenario ==
  /\ pc = "executeScenarios"
  /\ MoreScenarios
  /\ LET info == SetCurrentScenario(currentExecutionInfo, scenarioIndex)
         result == [AddAllItemsForScenarioExecution(scenarioIndex, NewProtoScenario(scenarioIndex))
                      EXCEPT !.skipped = Some(FALSE)]
     IN /\ currentExecutionInfo' = info
        /\ IF scenarioIndex \in DOMAIN errMap.scenarioErrs
             THEN /\ specResult' = CountSkippedScenario(specResult)
                  /\ scenarioResult' = SetSkipInfoInResult(result, scenarioIndex)
                  /\ scenarioResults' = Append(scenarioResults, scenarioResult')
                  /\ scenarioIndex' = scenarioIndex + 1
                  /\ NoMessage
                  /\ UNCHANGED << pc, reported >>
             ELSE /\ scenarioResult' = result
                  /\ reported' = Append(reported, Event("ScenarioStart", scenarioIndex))
                  /\ ExecuteHook(HookMessage("ScenarioExecutionStarting", info), "scenario")
                  /\ pc' = "executeBeforeScenarioHook"
                  /\ UNCHANGED << specResult, scenarioResults, scenarioIndex >>
  /\ parent' = AddAllItemsParent(scenarioIndex, parent, currentTableRow)
  /\ UNCHANGED << input, rangeCall, currentTableRow, dataTableScenarioExecutionResult,
                  phase, path, failure, stepLocals, heap, response,
                  received, finished, faults >>

\* executeScenario, from the answer to the before-scenario hook to the next call
BeforeScenarioHookReturn ==
  /\ pc = "executeBeforeScenarioHook"
  /\ response # None
  /\ ReadResponse
  /\ LET beforeHookExecutionStatus == ExecuteAndGetStatus(response[1])
         timed == AddExecTime(scenarioResult, GetInt(beforeHookExecutionStatus.executionTime))
     IN IF GetBool(beforeHookExecutionStatus.failed)
          THEN /\ scenarioResult' = AddPreHook(timed, beforeHookExecutionStatus)
               /\ currentExecutionInfo' = SetScenarioFailure(currentExecutionInfo)
               /\ reported' = reported \o PrintStatus(beforeHookExecutionStatus)
               /\ ExecuteAfterScenarioHook(currentExecutionInfo')
               /\ UNCHANGED << phase, path >>
          ELSE /\ scenarioResult' = timed
               /\ phase' = "contexts"
               /\ path' = << 1 >>
               /\ pc' = "executeItems"
               /\ NoMessage
               /\ UNCHANGED << currentExecutionInfo, reported >>
  /\ UNCHANGED << input, parent, rangeCall, currentTableRow, specResult, loopLocals, failure,
                  stepLocals, heap, received, finished, faults >>

ListAfterContextItemsAlwaysBody(result) == "scenarioItems"

\* the list executeScenario walks after the context items
ListAfterContextItems(result) ==
  IF ~result.failed THEN "scenarioItems" ELSE "tearDownSteps"

\* executeContextItems returns; executeScenario goes on to the next list
ExecuteContextItemsReturn ==
  /\ pc = "executeItemsReturn"
  /\ phase = "contexts"
  /\ scenarioResult' = IF failure THEN SetFailure(scenarioResult) ELSE scenarioResult
  /\ phase' = ListAfterContextItems(scenarioResult')
  /\ path' = << 1 >>
  /\ pc' = "executeItems"
  /\ NoMessage
  /\ UNCHANGED << input, parent, rangeCall, currentTableRow, currentExecutionInfo, specResult, loopLocals,
                  failure, stepLocals, heap, response, reported,
                  received, finished, faults >>

ListAfterScenarioItemsUnlessFailed(result) ==
  IF result.failed THEN "none" ELSE "tearDownSteps"

\* the list executeScenario walks after the scenario's own items
ListAfterScenarioItems(result) == "tearDownSteps"

\* executeScenarioItems returns; executeScenario goes on to the tear-down
ExecuteScenarioItemsReturn ==
  /\ pc = "executeItemsReturn"
  /\ phase = "scenarioItems"
  /\ scenarioResult' = IF failure THEN SetFailure(scenarioResult) ELSE scenarioResult
  /\ phase' = ListAfterScenarioItems(scenarioResult')
  /\ path' = << 1 >>
  /\ pc' = "executeItems"
  /\ NoMessage
  /\ UNCHANGED << input, parent, rangeCall, currentTableRow, currentExecutionInfo, specResult, loopLocals,
                  failure, stepLocals, heap, response, reported,
                  received, finished, faults >>

TearDownItemsResultAsItWas(result, failed) == result

\* executeTearDownItems: a failure of the tear-down list fails the scenario result
TearDownItemsResult(result, failed) == IF failed THEN SetFailure(result) ELSE result

\* executeTearDownItems returns; executeScenario calls the after-scenario hook
ExecuteTearDownItemsReturn ==
  /\ pc = "executeItemsReturn"
  /\ phase \notin {"contexts", "scenarioItems"}
  /\ scenarioResult' = TearDownItemsResult(scenarioResult, failure)
  /\ ExecuteAfterScenarioHook(currentExecutionInfo)
  /\ UNCHANGED << input, parent, rangeCall, currentTableRow, currentExecutionInfo, specResult, loopLocals,
                  phase, path, failure, stepLocals, heap, response, reported,
                  received, finished, faults >>

\* executeScenario, from the answer to the after-scenario hook to its return
AfterScenarioHookReturn ==
  /\ pc = "executeAfterScenarioHook"
  /\ response # None
  /\ ReadResponse
  /\ LET afterHookExecutionStatus == ExecuteAndGetStatus(response[1])
         timed == AddExecTime(scenarioResult, GetInt(afterHookExecutionStatus.executionTime))
         result == UpdateExecutionTime(AddPostHook(timed, afterHookExecutionStatus), heap)
     IN /\ scenarioResult' = result
        /\ currentExecutionInfo' = IF GetBool(afterHookExecutionStatus.failed)
                                     THEN SetScenarioFailure(currentExecutionInfo)
                                     ELSE currentExecutionInfo
        /\ reported' = (IF GetBool(afterHookExecutionStatus.failed)
                          THEN reported \o PrintStatus(afterHookExecutionStatus)
                          ELSE reported) \o << Event("ScenarioEnd", result.failed) >>
        /\ scenarioResults' = Append(scenarioResults, result)
  /\ scenarioIndex' = scenarioIndex + 1
  /\ pc' = "executeScenarios"
  /\ NoMessage
  /\ UNCHANGED << input, parent, rangeCall, currentTableRow, specResult, dataTableScenarioExecutionResult,
                  phase, path, failure, stepLocals, heap, received, finished, faults >>

-----------------------------------------------------------------------------
(* Items, concepts and steps.                                              *)

\* what an item returned: where it was, its failed flag, and its result as it then stood
Returned(list, p, type, h, addr) ==
  [ at |-> [row |-> currentTableRow, scenario |-> scenarioIndex, item |-> << list >> \o p],
    itemType |-> type,
    failed |-> GetBool(Deref(h, addr).failed),
    executionTime |-> GetInt(Deref(h, addr).executionTime),
    recoverableError |-> GetBool(Deref(h, addr).recoverableError) ]

\* executeAfterStepHook, the call
ExecuteAfterStepHook(info) ==
  /\ ExecuteHook(HookMessage("StepExecutionEnding", info), "step")
  /\ pc' = "executeAfterStepHook"

\* whether executeItem hands this proto step to executeStep
StepIsExecuted(protoItem) == protoItem.itemType = "Step"

\* executeItem on a step: executeStep up to the before-step hook
ExecuteStep ==
  /\ pc = "executeItems"
  /\ ~AtEnd
  /\ StepIsExecuted(CurrentItem)
  /\ reported' = Append(reported, Event("StepStart", CurrentItem.name))
  /\ protoStepExecResult' = NilStepExecutionResult
  /\ currentExecutionInfo' =
       [currentExecutionInfo EXCEPT
          !.currentStep = Some([step |-> CurrentItem.name, isFailed |-> FALSE])]
  /\ ExecuteHook(HookMessage("StepExecutionStarting", currentExecutionInfo'), "step")
  /\ pc' = "executeBeforeStepHook"
  /\ UNCHANGED << input, parent, rangeCall, currentTableRow, specResult, loopLocals, scenarioLocals,
                  beforeHookStatus, heap, response,
                  received, finished, faults >>

SendsExecuteStepAlways(status) == TRUE

\* whether executeStep sends ExecuteStep after this answer to the before-step hook
SendsExecuteStep(status) == ~GetBool(status.failed)

\* executeStep, from the answer to the before-step hook to the next call
BeforeStepHookReturn ==
  /\ pc = "executeBeforeStepHook"
  /\ response # None
  /\ ReadResponse
  /\ LET status == ExecuteAndGetStatus(response[1])
     IN /\ beforeHookStatus' = status
        /\ IF ~SendsExecuteStep(status)
             THEN /\ heap' = Append(heap, [NilExecutionResult EXCEPT !.failed = Some(TRUE)])
                  /\ protoStepExecResult' =
                       [protoStepExecResult EXCEPT
                          !.preHookFailure = Some(GetProtoHookFailure(status)),
                          !.executionResult = Len(heap) + 1]
                  /\ currentExecutionInfo' = SetStepFailure(currentExecutionInfo)
                  /\ reported' = reported \o PrintStatus(status)
                  /\ ExecuteAfterStepHook(currentExecutionInfo')
             ELSE /\ notified' = notified
                  /\ WriteGaugeMessage(ExecuteStepMessage(CurrentItem), "step")
                  /\ pc' = "executeStep"
                  /\ UNCHANGED << heap, protoStepExecResult, currentExecutionInfo, reported >>
  /\ UNCHANGED << input, parent, rangeCall, currentTableRow, specResult, loopLocals, scenarioLocals,
                  received, finished, faults >>

\* executeStep, from the answer to ExecuteStep to the after-step hook
ExecuteStepReturn ==
  /\ pc = "executeStep"
  /\ response # None
  /\ ReadResponse
  /\ LET stepExecutionStatus == ExecuteAndGetStatus(response[1])
     IN /\ currentExecutionInfo' = IF GetBool(stepExecutionStatus.failed)
                                     THEN SetStepFailure(currentExecutionInfo)
                                     ELSE currentExecutionInfo
        /\ heap' = Append(heap, stepExecutionStatus)
        /\ protoStepExecResult' = [protoStepExecResult EXCEPT !.executionResult = Len(heap) + 1]
  /\ ExecuteAfterStepHook(currentExecutionInfo')
  /\ UNCHANGED << input, parent, rangeCall, currentTableRow, specResult, loopLocals, scenarioLocals,
                  beforeHookStatus, reported,
                  received, finished, faults >>

AfterStepHookNeverFailed(status) == FALSE

\* whether executeStep takes the after-step hook to have failed
AfterStepHookFailed(status) == GetBool(status.failed)

\* executeStep, from the answer to the after-step hook to its return
AfterStepHookReturn ==
  /\ pc = "executeAfterStepHook"
  /\ response # None
  /\ ReadResponse
  /\ LET afterStepHookStatus == ExecuteAndGetStatus(response[1])
         addr == protoStepExecResult.executionResult
         afterFailed == AfterStepHookFailed(afterStepHookStatus)
         timed == [heap EXCEPT ![addr].executionTime =
                     AddExecutionTimes(@, << beforeHookStatus, afterStepHookStatus >>)]
         newHeap == IF afterFailed THEN [timed EXCEPT ![addr].failed = Some(TRUE)] ELSE timed
         old == CurrentItem.stepExecutionResult[1]
         result == [protoStepExecResult EXCEPT
                      !.postHookFailure = IF afterFailed
                                            THEN Some(GetProtoHookFailure(afterStepHookStatus))
                                            ELSE @,
                      !.skipped = old.skipped,
                      !.skippedReason = old.skippedReason]
         stepFailed == GetBool(newHeap[addr].failed)
     IN /\ heap' = newHeap
        /\ protoStepExecResult' = result
        /\ scenarioResult' = SetItem(scenarioResult, phase, path,
                                     [CurrentItem EXCEPT !.stepExecutionResult = Some(result)])
        /\ currentExecutionInfo' = IF afterFailed THEN SetStepFailure(currentExecutionInfo)
                                                  ELSE currentExecutionInfo
        /\ reported' = (IF afterFailed THEN reported \o PrintStatus(afterStepHookStatus)
                                       ELSE reported)
                       \o << Event("StepEnd", stepFailed) >>
                       \o (IF stepFailed
                             THEN << Event("Error", "Failed Step"),
                                     Event("Error", newHeap[addr].errorMessage),
                                     Event("Error", "Stacktrace") >>
                             ELSE << >>)
        /\ failure' = stepFailed
        /\ finished' = Append(finished, Returned(phase, path, "Step", newHeap, addr))
  /\ pc' = "executeItemReturn"
  /\ NoMessage
  /\ UNCHANGED << input, parent, rangeCall, currentTableRow, specResult, loopLocals, phase, path,
                  beforeHookStatus, received, faults >>

\* executeItem on a concept: executeConcept up to its first child
ExecuteConcept ==
  /\ pc = "executeItems"
  /\ ~AtEnd
  /\ CurrentItem.itemType = "Concept"
  /\ reported' = Append(reported, Event("ConceptStart", CurrentItem.name))
  /\ path' = path \o << 1 >>
  /\ NoMessage
  /\ UNCHANGED << input, parent, rangeCall, pc, currentTableRow, currentExecutionInfo, specResult, loopLocals,
                  scenarioResult, phase, failure, stepLocals, heap, response,
                  received, finished, faults >>

\* executeItem on an item that is neither a step nor a concept
ExecuteOtherItem ==
  /\ pc = "executeItems"
  /\ ~AtEnd
  /\ ~StepIsExecuted(CurrentItem)
  /\ CurrentItem.itemType # "Concept"
  /\ failure' = FALSE
  /\ pc' = "executeItemReturn"
  /\ NoMessage
  /\ UNCHANGED << input, parent, rangeCall, currentTableRow, currentExecutionInfo, specResult, loopLocals,
                  scenarioResult, phase, path, stepLocals, heap, response, reported,
                  received, finished, faults >>

\* executeConcept after a child returned: the concept's result, then go on or give up
ConceptChildReturn ==
  /\ pc = "executeItemReturn"
  /\ Len(path) > 1
  /\ LET protoConcept == ItemAt(ItemList(scenarioResult, phase), Front(path))
         set == SetExecutionResultForConcept(protoConcept, heap)
     IN /\ heap' = set.heap
        /\ scenarioResult' = SetItem(scenarioResult, phase, Front(path), set.concept)
        /\ IF failure
             THEN /\ path' = Front(path)
                  /\ finished' = Append(finished,
                                        Returned(phase, Front(path), "Concept", set.heap,
                                                 GetExecutionResult(set.concept.conceptExecutionResult)))
                  /\ UNCHANGED pc
             ELSE /\ path' = NextSibling(path)
                  /\ pc' = "executeItems"
                  /\ UNCHANGED finished
  /\ NoMessage
  /\ UNCHANGED << input, parent, rangeCall, currentTableRow, currentExecutionInfo, specResult, loopLocals,
                  phase, failure, stepLocals, response, reported, received, faults >>

\* executeConcept after its last child: the concept ends and returns its result
ExecuteConceptReturn ==
  /\ pc = "executeItems"
  /\ AtEnd
  /\ Len(path) > 1
  /\ LET protoConcept == ItemAt(ItemList(scenarioResult, phase), Front(path))
         conceptFailed ==
           GetBool(Deref(heap, GetExecutionResult(protoConcept.conceptExecutionResult)).failed)
     IN /\ reported' = Append(reported, Event("ConceptEnd", conceptFailed))
        /\ failure' = conceptFailed
        /\ finished' = Append(finished,
                              Returned(phase, Front(path), "Concept", heap,
                                       GetExecutionResult(protoConcept.conceptExecutionResult)))
  /\ path' = Front(path)
  /\ pc' = "executeItemReturn"
  /\ NoMessage
  /\ UNCHANGED << input, parent, rangeCall, currentTableRow, currentExecutionInfo, specResult, loopLocals,
                  scenarioResult, phase, stepLocals, heap, response, received, faults >>

ExecuteItemsGoesOn(failed) == FALSE

\* executeItems: whether the list is given up after an item returned
ExecuteItemsStops(failed) == failed

\* executeItems after an item returned: stop at the first failure
ItemReturn ==
  /\ pc = "executeItemReturn"
  /\ Len(path) = 1
  /\ IF ExecuteItemsStops(failure)
       THEN /\ pc' = "executeItemsReturn"
            /\ UNCHANGED path
       ELSE /\ pc' = "executeItems"
            /\ path' = NextSibling(path)
  /\ NoMessage
  /\ UNCHANGED << input, parent, rangeCall, currentTableRow, currentExecutionInfo, specResult, loopLocals,
                  scenarioResult, phase, failure, stepLocals, heap, response, reported,
                  received, finished, faults >>

\* executeItems after the last item: no item failed
ExecuteItemsEnd ==
  /\ pc = "executeItems"
  /\ AtEnd
  /\ Len(path) = 1
  /\ failure' = FALSE
  /\ pc' = "executeItemsReturn"
  /\ NoMessage
  /\ UNCHANGED << input, parent, rangeCall, currentTableRow, currentExecutionInfo, specResult, loopLocals,
                  scenarioResult, phase, path, stepLocals, heap, response, reported,
                  received, finished, faults >>

-----------------------------------------------------------------------------
Next ==
  \/ Execute
  \/ BeforeSpecHookReturn
  \/ ExecuteTableDrivenSpecRow
  \/ ExecuteTableDrivenSpecReturn
  \/ ExecuteScenario
  \/ ExecuteScenariosReturn
  \/ BeforeScenarioHookReturn
  \/ ExecuteContextItemsReturn
  \/ ExecuteScenarioItemsReturn
  \/ ExecuteTearDownItemsReturn
  \/ AfterScenarioHookReturn
  \/ ExecuteStep
  \/ BeforeStepHookReturn
  \/ ExecuteStepReturn
  \/ AfterStepHookReturn
  \/ ExecuteConcept
  \/ ExecuteOtherItem
  \/ ConceptChildReturn
  \/ ExecuteConceptReturn
  \/ ItemReturn
  \/ ExecuteItemsEnd
  \/ AfterSpecHookReturn
  \/ RunnerRespond

Spec == Init /\ [][Next]_vars

\* one call of getDataTableRowsRange, made before any executor exists
ParseInit ==
  /\ input \in { i \in Inputs : i.specification = EmptySpecification
                                 /\ ~i.errMap.specErrs /\ i.errMap.stepErrs = {} }
  /\ pc = "getDataTableRowsRange"
  /\ rangeCall \in RangeCalls
  /\ InitExecutor

CallGetDataTableRowsRange ==
  /\ pc = "getDataTableRowsRange"
  /\ rangeCall' = [rangeCall EXCEPT
                     !.returned = Some(GetDataTableRowsRange(rangeCall.tableRows,
                                                             rangeCall.rowCount))]
  /\ pc' = "returned"
  /\ UNCHANGED << input, parent, currentTableRow, currentExecutionInfo, specResult,
                  loopLocals, scenarioLocals, stepLocals, heap, request, response,
                  sent, notified, reported, received, finished, faults >>

ParseNext == CallGetDataTableRowsRange

ParseSpec == ParseInit /\ [][ParseNext]_vars

\* The inputs of the fair specification: the step skip map, which no branch of the
\* executor reads, is empty, the table-driven input has its first scenario in
\* the scenario skip map, so that every row executes one scenario, and every
\* ExecuteStep takes the same time.
FairInputs ==
  { i \in Inputs :
      /\ i.errMap.stepErrs = {}
      /\ i.specification.rowCount > 0 => DOMAIN i.errMap.scenarioErrs # {}
      /\ i.times = {1} }

FairInit == Init /\ input \in FairInputs

\* The executor is a running goroutine, so its next step is eventually taken, and
\* every request on the runner connection is eventually answered.
FairSpec == FairInit /\ [][Next]_vars /\ WF_vars(Next)

-----------------------------------------------------------------------------
(* Properties.                                                             *)

StepMessages == { "StepExecutionStarting", "ExecuteStep", "StepExecutionEnding" }

MessageType(entry) == entry.message.messageType

\* the step a step-level message names
StepOfMessage(m) ==
  IF m.messageType = "ExecuteStep"
    THEN m.executeStepRequest[1].actualStepText
    ELSE m.currentExecutionInfo[1].currentStep[1].step

\* an answer that is anything but a status reporting success
ResponseFaulty(r) ==
  \/ r.err
  \/ r.messageType # "ExecutionStatusResponse"
  \/ r.executionResult = None
  \/ r.executionResult[1].failed = Some(TRUE)

\* two positions inside the same execution of a scenario
SameScenarioExecution(a, b) == a.row = b.row /\ a.scenario = b.scenario

\* C1: no step-level message is sent to the runner, and no plugin notification is
\* made, for a step that is in the step skip map.
C1_SkippedStepNeverExecuted ==
  /\ \A i \in 1..Len(sent) :
       MessageType(sent[i]) \in StepMessages
         => StepOfMessage(sent[i].message) \notin errMap.stepErrs
  /\ \A i \in 1..Len(notified) :
       MessageType(notified[i]) \in StepMessages
         => StepOfMessage(notified[i].message) \notin errMap.stepErrs

\* C2: a specification in the spec skip map is never sent to the runner or to the
\* plugins; execute returns one result per scenario, each marked skipped, and the
\* skipped count is the number of scenarios, whatever the table and the row range.
C2_SkippedSpec ==
  errMap.specErrs =>
    /\ sent = << >> /\ notified = << >> /\ request = None
    /\ pc \in { "execute", "done" }
    /\ pc = "done" =>
         /\ Len(specResult.scenarioResults) = Len(specification.scenarios)
         /\ \A i \in 1..Len(specification.scenarios) :
              /\ specResult.scenarioResults[i].heading = i
              /\ specResult.scenarioResults[i].skipped = Some(TRUE)
         /\ specResult.scenarioSkippedCount = Len(specification.scenarios)

C2_Witness ==
  /\ errMap.specErrs
  /\ pc = "done"
  /\ specification.rowCount > 1
  /\ dataTableIndex.start = dataTableIndex.end
  /\ DOMAIN errMap.scenarioErrs = {}
  /\ specResult.scenarioSkippedCount = 2

\* C3: executing a scenario that is in the scenario skip map returns a result marked
\* skipped, sends nothing, and adds exactly one to the skipped count; nothing else
\* that happens while scenarios are executed changes the count.
ExecutesSkippedScenario ==
  /\ pc = "executeScenarios"
  /\ scenarioIndex <= Len(specification.scenarios)
  /\ scenarioIndex \in DOMAIN errMap.scenarioErrs

C3_SkippedScenario ==
  /\ [](\A i \in 1..Len(sent) : sent[i].at.scenario \notin DOMAIN errMap.scenarioErrs)
  /\ [](\A i \in 1..Len(notified) : notified[i].at.scenario \notin DOMAIN errMap.scenarioErrs)
  /\ [][ IF ExecutesSkippedScenario
           THEN /\ scenarioResult'.skipped = Some(TRUE)
                /\ scenarioResult'.heading = scenarioIndex
                /\ scenarioResults' = Append(scenarioResults, scenarioResult')
                /\ sent' = sent /\ notified' = notified /\ request' = None
                /\ specResult'.scenarioSkippedCount = specResult.scenarioSkippedCount + 1
           ELSE pc # "execute"
                  => specResult'.scenarioSkippedCount = specResult.scenarioSkippedCount ]_vars

C3_Witness ==
  /\ ~errMap.specErrs
  /\ specification.rowCount > 0
  /\ currentTableRow = dataTableIndex.start + 1
  /\ pc = "executeScenarios"
  /\ scenarioIndex = 2
  /\ scenarioResult.skipped = Some(TRUE)
  /\ specResult.scenarioSkippedCount = 2
  /\ Len(sent) > 2

AllScenarioResults(result) ==
  result.scenarioResults \o FlattenRows(result.tableDrivenResults, 1)

\* the scenario executions in the result whose scenario is in the scenario skip map
SkippedExecutions(result) ==
  Cardinality({ i \in 1..Len(AllScenarioResults(result)) :
                  AllScenarioResults(result)[i].heading \in DOMAIN errMap.scenarioErrs })

\* the passes over the scenarios that execute makes when the before-spec hook passes
Passes ==
  IF specification.rowCount = 0 THEN 1 ELSE dataTableIndex.end - dataTableIndex.start + 1

\* C4 as stated: in the returned result the skipped count is the number of scenario
\* executions whose scenario is in the scenario skip map, and Skipped holds exactly
\* when the count is positive, on every path.
C4_CountAndFlagOnEveryPath ==
  pc = "done" =>
    /\ specResult.scenarioSkippedCount = SkippedExecutions(specResult)
    /\ specResult.skipped <=> specResult.scenarioSkippedCount > 0

\* C4 amended: that holds when the specification is not in the spec skip map; when
\* it is, Skipped is true and the count is the number of scenarios.
C4_CountAndFlag ==
  pc = "done" =>
    IF errMap.specErrs
      THEN /\ specResult.skipped
           /\ specResult.scenarioSkippedCount = Len(specification.scenarios)
      ELSE /\ specResult.scenarioSkippedCount = SkippedExecutions(specResult)
           /\ specResult.scenarioSkippedCount =
                IF specResult.preHookFailure # None THEN 0
                ELSE Passes * Cardinality(DOMAIN errMap.scenarioErrs)
           /\ specResult.skipped <=> specResult.scenarioSkippedCount > 0

C4_Witness ==
  /\ pc = "done"
  /\ ~errMap.specErrs
  /\ specification.rowCount > 0
  /\ specResult.preHookFailure = None
  /\ specResult.scenarioSkippedCount = 2
  /\ specResult.skipped

\* the items executeScenario resolves for scenario index, before anything is executed
ResolvedItems(index, list) ==
  ItemList(AddAllItemsForScenarioExecution(index, NewProtoScenario(index)), list)

\* the records of finished that are the children of the concept of record n
Kids(n) ==
  { m \in 1..(n - 1) :
      /\ SameScenarioExecution(finished[m].at, finished[n].at)
      /\ Front(finished[m].at.item) = finished[n].at.item }

RECURSIVE SumOfTimes(_)
SumOfTimes(S) ==
  IF S = {} THEN 0
  ELSE LET m == CHOOSE x \in S : TRUE
       IN finished[m].executionTime + SumOfTimes(S \ {m})

\* whether position a is below child number k or later of the concept at position c
AfterChild(a, c, k) ==
  /\ SameScenarioExecution(a, c)
  /\ Len(a.item) > Len(c.item)
  /\ SubSeq(a.item, 1, Len(c.item)) = c.item
  /\ a.item[Len(c.item) + 1] > k

\* C5: a concept returns failed exactly when a child failed; the children that ran
\* are 1..k, k the first failing child or else the last child; the concept's time
\* is the sum of their times as each returned it; nothing is sent for a child after k.
C5_ConceptResult ==
  \A n \in 1..Len(finished) :
    finished[n].itemType = "Concept" =>
      LET c == finished[n]
          kids == Kids(n)
          children == ItemAt(ResolvedItems(c.at.scenario, c.at.item[1]), Tail(c.at.item)).steps
      IN /\ { Last(finished[m].at.item) : m \in kids } = 1..Cardinality(kids)
         /\ c.failed <=> \E m \in kids : finished[m].failed
         /\ c.executionTime = SumOfTimes(kids)
         /\ \A m \in kids :
              finished[m].failed =>
                /\ Last(finished[m].at.item) = Cardinality(kids)
                /\ \A i \in 1..Len(sent) :
                     ~AfterChild(sent[i].at, c.at, Last(finished[m].at.item))
         /\ ~c.failed => Cardinality(kids) = Len(children)

C5_Witness ==
  \E n \in 1..Len(finished) :
    /\ finished[n].itemType = "Concept"
    /\ finished[n].failed
    /\ Cardinality(Kids(n)) = 2
    /\ \E m \in Kids(n) : Last(finished[m].at.item) = 1 /\ finished[m].executionTime = 4
    /\ \E m \in Kids(n) : Last(finished[m].at.item) = 2 /\ finished[m].executionTime = 3
    /\ finished[n].executionTime = 7

\* the rows the reporter was told of before event i
RowsReportedBefore(i) ==
  Cardinality({ j \in 1..(i - 1) : reported[j].event = "DataTable" })

\* C6: with a data table, the specification not skipped and the before-spec hook
\* passed, the rows start..end are executed in ascending order, every scenario of
\* a row before anything of the next row; the result holds one list of scenario
\* results per row of the range, in that order, and no other row is executed.
C6_TableRows ==
  (specification.rowCount > 0 /\ ~errMap.specErrs) =>
    /\ \A i \in 1..Len(sent) :
         sent[i].at.scenario # 0 =>
           /\ sent[i].at.row \in dataTableIndex.start..dataTableIndex.end
           /\ \A j \in 1..(i - 1) :
                sent[j].at.scenario # 0 =>
                  \/ sent[j].at.row < sent[i].at.row
                  \/ /\ sent[j].at.row = sent[i].at.row
                     /\ sent[j].at.scenario <= sent[i].at.scenario
    /\ \A i \in 1..Len(reported) :
         reported[i].event = "DataTable" =>
           /\ reported[i].arg = dataTableIndex.start + RowsReportedBefore(i)
           /\ reported[i].arg <= dataTableIndex.end
    /\ (pc = "done" /\ specResult.preHookFailure = None) =>
         /\ Len(specResult.tableDrivenResults) = dataTableIndex.end - dataTableIndex.start + 1
         /\ specResult.scenarioResults = << >>
         /\ \A k \in 1..Len(specResult.tableDrivenResults) :
              /\ Len(specResult.tableDrivenResults[k]) = Len(specification.scenarios)
              /\ \A j \in 1..Len(specResult.tableDrivenResults[k]) :
                   LET r == specResult.tableDrivenResults[k][j]
                   IN /\ r.row = dataTableIndex.start + k - 1
                      /\ r.heading = j
                      /\ j \notin DOMAIN errMap.scenarioErrs =>
                           Cardinality({ i \in 1..Len(sent) :
                                           /\ MessageType(sent[i]) = "ScenarioExecutionStarting"
                                           /\ sent[i].at.row = r.row
                                           /\ sent[i].at.scenario = j }) = 1

C6_Witness ==
  /\ pc = "done"
  /\ ~errMap.specErrs
  /\ specification.rowCount > 1
  /\ specResult.preHookFailure = None
  /\ dataTableIndex.start < dataTableIndex.end
  /\ Len(specResult.tableDrivenResults) = dataTableIndex.end - dataTableIndex.start + 1
  /\ DOMAIN errMap.scenarioErrs = {}
  /\ \E i \in 1..Len(sent) :
       /\ MessageType(sent[i]) = "ScenarioExecutionEnding"
       /\ sent[i].at.row = dataTableIndex.end
       /\ sent[i].at.scenario = 2

\* the path of the first step executeItems meets in items from item i on: an empty
\* concept and a comment are passed over; << >> when there is no step
RECURSIVE FirstStep(_, _)
FirstStep(items, i) ==
  IF i > Len(items) THEN << >>
  ELSE IF items[i].itemType = "Step" THEN << i >>
  ELSE IF items[i].itemType = "Concept" /\ FirstStep(items[i].steps, 1) # << >>
         THEN << i >> \o FirstStep(items[i].steps, 1)
  ELSE FirstStep(items, i + 1)

\* an item of the scenario's own list returned failed in the scenario execution at a
BodyFailed(a) ==
  \E n \in 1..Len(finished) :
    /\ SameScenarioExecution(finished[n].at, a)
    /\ finished[n].at.item[1] = "scenarioItems"
    /\ Len(finished[n].at.item) = 2
    /\ finished[n].failed

\* some answer to a message written for the item at position a was faulty
AnsweredFaulty(a) ==
  \E i \in 1..Len(received) : sent[i].at = a /\ ResponseFaulty(received[i])

\* C7: when an item of the scenario's own list fails, the tear-down list is still
\* walked: its first step gets StepExecutionStarting before ScenarioExecutionEnding
\* is sent; and a tear-down step returns failed exactly when one of its own
\* answers (before-step hook, ExecuteStep, after-step hook) was faulty.
C7_TearDownAfterFailure ==
  /\ \A n \in 1..Len(sent) :
       (MessageType(sent[n]) = "ScenarioExecutionEnding" /\ BodyFailed(sent[n].at)) =>
         LET first == FirstStep(ResolvedItems(sent[n].at.scenario, "tearDownSteps"), 1)
         IN first # << >> =>
              \E i \in 1..(n - 1) :
                /\ MessageType(sent[i]) = "StepExecutionStarting"
                /\ SameScenarioExecution(sent[i].at, sent[n].at)
                /\ sent[i].at.item = << "tearDownSteps" >> \o first
  /\ \A n \in 1..Len(finished) :
       (finished[n].itemType = "Step" /\ finished[n].at.item[1] = "tearDownSteps") =>
         (finished[n].failed <=> AnsweredFaulty(finished[n].at))

C7_Witness ==
  /\ \E n \in 1..Len(sent) :
       MessageType(sent[n]) = "ScenarioExecutionEnding" /\ BodyFailed(sent[n].at)
  /\ \E n \in 1..Len(finished) :
       /\ finished[n].at.item = << "tearDownSteps", 1 >>
       /\ finished[n].itemType = "Step"
       /\ ~finished[n].failed
  /\ \E n \in 1..Len(finished) :
       /\ finished[n].at.item = << "tearDownSteps", 2 >>
       /\ finished[n].failed

\* the answer to message i has been given and the executor has read it
AnswerRead(i) ==
  /\ i <= Len(received)
  /\ ~(i = Len(sent) /\ response # None)

\* C8: after a transport error on a step's StepExecutionStarting, the next message
\* is that step's StepExecutionEnding, no ExecuteStep is ever sent for the step, and
\* the step returns a result with failed true and recoverable false.
C8_TransportErrorBeforeStep ==
  \A i \in 1..Len(sent) :
    (/\ MessageType(sent[i]) = "StepExecutionStarting"
     /\ i <= Len(received)
     /\ received[i].err) =>
      /\ \A j \in 1..Len(sent) :
           sent[j].at = sent[i].at => MessageType(sent[j]) # "ExecuteStep"
      /\ AnswerRead(i) =>
           /\ i + 1 <= Len(sent)
           /\ MessageType(sent[i + 1]) = "StepExecutionEnding"
           /\ sent[i + 1].at = sent[i].at
      /\ \A n \in 1..Len(finished) :
           finished[n].at = sent[i].at =>
             finished[n].failed /\ ~finished[n].recoverableError
      /\ AnswerRead(i + 1) =>
           Cardinality({ n \in 1..Len(finished) : finished[n].at = sent[i].at }) = 1

C8_Witness ==
  \E i \in 1..Len(sent) :
    /\ MessageType(sent[i]) = "StepExecutionStarting"
    /\ i + 1 <= Len(received)
    /\ received[i].err
    /\ ~ResponseFaulty(received[i + 1])
    /\ \E n \in 1..Len(finished) :
         finished[n].at = sent[i].at /\ finished[n].failed /\ ~finished[n].recoverableError

\* nothing of a scenario is in the result of the specification
NoScenarioResult ==
  /\ specResult.scenarioResults = << >>
  /\ specResult.tableDrivenResults = << >>

\* C9: after a faulty answer to SpecExecutionStarting, the one message that follows
\* is SpecExecutionEnding, carrying the failed flag of the specification; no
\* scenario is executed and no scenario result is attached.
C9_BeforeSpecHookFailure ==
  (Len(received) >= 1 /\ ResponseFaulty(received[1])) =>
    /\ MessageType(sent[1]) = "SpecExecutionStarting"
    /\ Len(sent) <= 2
    /\ NoScenarioResult
    /\ finished = << >>
    /\ AnswerRead(1) =>
         /\ Len(sent) = 2
         /\ MessageType(sent[2]) = "SpecExecutionEnding"
         /\ sent[2].message.currentExecutionInfo[1].currentSpec.isFailed
         /\ currentExecutionInfo.currentSpec.isFailed
         /\ pc \in { "executeAfterSpecHook", "done" }

C9_Witness ==
  /\ pc = "done"
  /\ Len(received) = 2
  /\ Len(specification.scenarios) = 2
  /\ DOMAIN errMap.scenarioErrs = {}
  /\ received[1].messageType = "ErrorResponse"
  /\ ~ResponseFaulty(received[2])
  /\ NoScenarioResult

\* C10: after a faulty answer to ScenarioExecutionStarting, the next message is the
\* ScenarioExecutionEnding of that scenario execution, carrying the failed flags of
\* the scenario and of the specification; no step of that execution is run.
C10_BeforeScenarioHookFailure ==
  \A i \in 1..Len(sent) :
    (/\ MessageType(sent[i]) = "ScenarioExecutionStarting"
     /\ i <= Len(received)
     /\ ResponseFaulty(received[i])) =>
      /\ \A j \in 1..Len(sent) :
           SameScenarioExecution(sent[j].at, sent[i].at) => sent[j].at.item = << >>
      /\ \A n \in 1..Len(finished) : ~SameScenarioExecution(finished[n].at, sent[i].at)
      /\ AnswerRead(i) =>
           /\ i + 1 <= Len(sent)
           /\ MessageType(sent[i + 1]) = "ScenarioExecutionEnding"
           /\ sent[i + 1].at = sent[i].at
           /\ LET info == sent[i + 1].message.currentExecutionInfo[1]
              IN /\ info.currentScenario[1].isFailed
                 /\ info.currentScenario[1].name = sent[i].at.scenario
                 /\ info.currentSpec.isFailed

C10_Witness ==
  \E i \in 1..Len(sent) :
    /\ MessageType(sent[i]) = "ScenarioExecutionStarting"
    /\ i + 1 <= Len(received)
    /\ ResponseFaulty(received[i])
    /\ ~ResponseFaulty(received[i + 1])
    /\ Len(specification.contexts) > 0
    /\ Len(specification.tearDownSteps) > 0
    /\ pc = "done"

\* a context item returned failed in the scenario execution at a
ContextFailed(a) ==
  \E n \in 1..Len(finished) :
    /\ SameScenarioExecution(finished[n].at, a)
    /\ finished[n].at.item[1] = "contexts"
    /\ Len(finished[n].at.item) = 2
    /\ finished[n].failed

\* the results of scenario executions that have returned, wherever they are kept
ReturnedScenarioResults ==
  scenarioResults \o FlattenRows(dataTableScenarioExecutionResult, 1)
    \o AllScenarioResults(specResult)

\* C11: when a context item fails, nothing is sent for the scenario's own items,
\* the first tear-down step still gets StepExecutionStarting before
\* ScenarioExecutionEnding is sent, and the scenario result is marked failed.
C11_ContextFailure ==
  /\ \A n \in 1..Len(finished) :
       (finished[n].at.item[1] = "contexts" /\ Len(finished[n].at.item) = 2
          /\ finished[n].failed) =>
         /\ \A i \in 1..Len(sent) :
              SameScenarioExecution(sent[i].at, finished[n].at) =>
                (sent[i].at.item = << >> \/ sent[i].at.item[1] # "scenarioItems")
         /\ \A m \in 1..Len(finished) :
              SameScenarioExecution(finished[m].at, finished[n].at) =>
                finished[m].at.item[1] # "scenarioItems"
         /\ \A k \in 1..Len(ReturnedScenarioResults) :
              (ReturnedScenarioResults[k].row = finished[n].at.row
                 /\ ReturnedScenarioResults[k].heading = finished[n].at.scenario) =>
                ReturnedScenarioResults[k].failed
  /\ \A n \in 1..Len(sent) :
       (MessageType(sent[n]) = "ScenarioExecutionEnding" /\ ContextFailed(sent[n].at)) =>
         /\ scenarioIndex = sent[n].at.scenario /\ currentTableRow = sent[n].at.row
              /\ pc = "executeAfterScenarioHook" => scenarioResult.failed
         /\ LET first == FirstStep(ResolvedItems(sent[n].at.scenario, "tearDownSteps"), 1)
            IN first # << >> =>
                 \E i \in 1..(n - 1) :
                   /\ MessageType(sent[i]) = "StepExecutionStarting"
                   /\ SameScenarioExecution(sent[i].at, sent[n].at)
                   /\ sent[i].at.item = << "tearDownSteps" >> \o first

C11_Witness ==
  /\ pc = "done"
  /\ \E n \in 1..Len(sent) :
       MessageType(sent[n]) = "ScenarioExecutionEnding" /\ ContextFailed(sent[n].at)
  /\ \E n \in 1..Len(finished) : finished[n].at.item = << "tearDownSteps", 2 >>
  /\ Len(specResult.scenarioResults) = 1
  /\ specResult.scenarioResults[1].failed
  /\ specResult.scenarioResults[1].postHookFailure = None

\* C12: resolving concepts leaves the template as the parser made it: the parent
\* back-reference of every nested concept step still points to the template concept.
C12_TemplateNeverMutated ==
  parent = TemplateParent(specification)

\* the last row execute passes over; without a data table the one pass is at row 0
LastRow == IF specification.rowCount = 0 THEN 0 ELSE dataTableIndex.end

\* the (row, scenario) pairs that are due from scenario index of row on, in document
\* order: every selected row, and in it every scenario not in the scenario skip map
RECURSIVE ScenariosDue(_, _)
ScenariosDue(row, index) ==
  IF row > LastRow THEN << >>
  ELSE IF index > Len(specification.scenarios) THEN ScenariosDue(row + 1, 1)
  ELSE (IF index \in DOMAIN errMap.scenarioErrs
          THEN << >> ELSE << [row |-> row, scenario |-> index] >>)
         \o ScenariosDue(row, index + 1)

IsScenarioStart(entry) == MessageType(entry) = "ScenarioExecutionStarting"

\* the ScenarioExecutionStarting messages sent so far
ScenarioStarts == SelectSeq(sent, IsScenarioStart)

\* C13: the ScenarioExecutionStarting messages are sent for the scenarios not in the
\* scenario skip map, once per selected row, in document order; when execute
\* returns after a passing before-spec hook none is missing, whatever failed.
C13_EveryScenarioAttempted ==
  LET due == ScenariosDue(IF specification.rowCount = 0 THEN 0 ELSE FirstRow, 1)
  IN /\ Len(ScenarioStarts) <= Len(due)
     /\ \A i \in 1..Len(ScenarioStarts) :
          /\ ScenarioStarts[i].at.row = due[i].row
          /\ ScenarioStarts[i].at.scenario = due[i].scenario
     /\ (pc = "done" /\ ~errMap.specErrs /\ specResult.preHookFailure = None) =>
          Len(ScenarioStarts) = Len(due)

C13_Witness ==
  /\ pc = "done"
  /\ specResult.preHookFailure = None
  /\ Len(ScenarioStarts) = 2
  /\ ScenarioStarts[1].at.scenario = 1
  /\ ScenarioStarts[2].at.scenario = 2
  /\ \E i \in 1..Len(sent) :
       /\ sent[i].at.scenario = 1
       /\ sent[i].at.item # << >>
       /\ received[i].err
  /\ \E i \in 1..Len(sent) :
       /\ MessageType(sent[i]) = "ScenarioExecutionEnding"
       /\ sent[i].at.scenario = 1
       /\ ResponseFaulty(received[i])

IsSpecEnd(entry) == MessageType(entry) = "SpecExecutionEnding"

\* C14: execute eventually returns, whatever the answers are; and unless the
\* specification is in the spec skip map it has then sent SpecExecutionEnding
\* exactly once, as the last message of the run.
C14_ExecuteReturns ==
  /\ <>(pc = "done")
  /\ []((pc = "done" /\ ~errMap.specErrs) =>
          /\ sent # << >>
          /\ IsSpecEnd(sent[Len(sent)])
          /\ Len(SelectSeq(sent, IsSpecEnd)) = 1
          /\ Len(received) = Len(sent))

C14_Witness ==
  /\ pc = "done"
  /\ ~errMap.specErrs
  /\ faults = MaxFaults
  /\ Len(sent) > 6
  /\ received[Len(sent)].err
  /\ \E i \in 1..Len(sent) : received[i].messageType = "ErrorResponse"

\* text is a run of decimal digits, at least one
IsNumber(text) == text # << >> /\ \A k \in 1..Len(text) : IsDigit(text[k])

Hyphens(text) == { k \in 1..Len(text) : text[k] = "-" }

\* the part of text before position k, and the part after it
Before(text, k) == SubSeq(text, 1, k - 1)
After(text, k) == SubSeq(text, k + 1, Len(text))

\* C15: a single in-bounds integer N gives {N, N}; an in-bounds pair A-B gives
\* {A, B}; any other shape and any bound outside [0, rowCount - 1] gives the
\* validation error, with the range {0, 0}.
C15_RowsRange ==
  rangeCall.returned # None =>
    LET text == rangeCall.tableRows
        last == rangeCall.rowCount - 1
        out == rangeCall.returned[1]
        hyphen == CHOOSE k \in Hyphens(text) : TRUE
    IN IF Hyphens(text) = {} /\ IsNumber(text) /\ DecimalValue(text) <= last
         THEN /\ ~out.err
              /\ out.range = [start |-> DecimalValue(text), end |-> DecimalValue(text)]
       ELSE IF /\ Cardinality(Hyphens(text)) = 1
               /\ IsNumber(Before(text, hyphen)) /\ IsNumber(After(text, hyphen))
               /\ DecimalValue(Before(text, hyphen)) <= last
               /\ DecimalValue(After(text, hyphen)) <= last
         THEN /\ ~out.err
              /\ out.range = [start |-> DecimalValue(Before(text, hyphen)),
                              end |-> DecimalValue(After(text, hyphen))]
       ELSE out.err /\ out.range = [start |-> 0, end |-> 0]

C15_Witness ==
  /\ rangeCall.tableRows = << "1", "-", "3" >>
  /\ rangeCall.rowCount = 4
  /\ rangeCall.returned = Some([range |-> [start |-> 1, end |-> 3], err |-> FALSE])

\* the messages of type that were written for the item at position a
MessagesAt(a, type) ==
  { j \in 1..Len(sent) : sent[j].at = a /\ MessageType(sent[j]) = type }

\* C16: every step that got StepExecutionStarting gets StepExecutionEnding exactly
\* once, later, whatever was answered before; ExecuteStep is sent exactly when the
\* before-step hook did not fail; and a failing after-step hook makes the step
\* return failed even when the answer to ExecuteStep reported success.
C16_AfterStepHook ==
  \A i \in 1..Len(sent) :
    MessageType(sent[i]) = "StepExecutionStarting" =>
      LET a == sent[i].at
          ending == MessagesAt(a, "StepExecutionEnding")
          executing == MessagesAt(a, "ExecuteStep")
      IN /\ MessagesAt(a, "StepExecutionStarting") = { i }
         /\ Cardinality(ending) <= 1
         /\ Cardinality(executing) <= 1
         /\ \A j \in ending \cup executing : j > i
         /\ \A j \in executing : \A k \in ending : j < k
         /\ AnswerRead(i) =>
              /\ executing # { } <=> ~ResponseFaulty(received[i])
              /\ \A j \in executing : AnswerRead(j) => Cardinality(ending) = 1
              /\ executing = { } => Cardinality(ending) = 1
         /\ \A k \in ending :
              AnswerRead(k) =>
                \E n \in 1..Len(finished) :
                  /\ finished[n].at = a
                  /\ ResponseFaulty(received[k]) => finished[n].failed

C16_Witness ==
  \E i \in 1..Len(sent) :
    /\ MessageType(sent[i]) = "StepExecutionStarting"
    /\ i + 2 <= Len(received)
    /\ ~ResponseFaulty(received[i])
    /\ MessageType(sent[i + 1]) = "ExecuteStep"
    /\ ~ResponseFaulty(received[i + 1])
    /\ MessageType(sent[i + 2]) = "StepExecutionEnding"
    /\ ResponseFaulty(received[i + 2])
    /\ \E n \in 1..Len(finished) : finished[n].at = sent[i].at /\ finished[n].failed

\* position b is that of a later item of the list which holds the item at a, or
\* lies within such a later item
LaterInList(a, b) ==
  /\ SameScenarioExecution(a, b)
  /\ Len(b.item) >= Len(a.item)
  /\ Front(b.item) # << >>
  /\ SubSeq(b.item, 1, Len(a.item) - 1) = Front(a.item)
  /\ b.item[Len(a.item)] > a.item[Len(a.item)]

\* position b is that of the item at a or lies within it
Within(a, b) ==
  /\ SameScenarioExecution(a, b)
  /\ Len(b.item) >= Len(a.item)
  /\ SubSeq(b.item, 1, Len(a.item)) = a.item

\* C17: once an item of a list (contexts, scenario's own items, tear-down, the
\* children of a concept) has returned failed, no message is ever written for a
\* later item of that list and no later item of it returns; and after a failed
\* item of the tear-down list the next message written is ScenarioExecutionEnding
\* of that scenario.
C17_ListStopsAtFailure ==
  \A n \in 1..Len(finished) :
    finished[n].failed =>
      LET a == finished[n].at
          own == { i \in 1..Len(sent) : Within(a, sent[i].at) }
      IN /\ \A i \in 1..Len(sent) : ~LaterInList(a, sent[i].at)
         /\ \A m \in 1..Len(finished) : ~LaterInList(a, finished[m].at)
         /\ (a.item[1] = "tearDownSteps" /\ Len(a.item) = 2) =>
              /\ own # { }
              /\ \A i \in own :
                   (i < Len(sent) /\ \A j \in own : j <= i) =>
                     /\ MessageType(sent[i + 1]) = "ScenarioExecutionEnding"
                     /\ SameScenarioExecution(sent[i + 1].at, a)

C17_Witness ==
  /\ specification = FlatSpecification
  /\ \E n \in 1..Len(finished) :
       /\ finished[n].at.item = << "tearDownSteps", 1 >>
       /\ finished[n].failed
       /\ \E i \in 1..Len(sent) :
            /\ MessageType(sent[i]) = "ScenarioExecutionEnding"
            /\ SameScenarioExecution(sent[i].at, finished[n].at)
  /\ \A i \in 1..Len(sent) : sent[i].at.item # << "tearDownSteps", 2 >>

\* every concept among items, at every depth, stores as its execution time the sum
\* of the execution times stored on its children
RECURSIVE ConceptTimesAddUp(_, _, _)
ConceptTimesAddUp(items, h, i) ==
  IF i > Len(items) THEN TRUE
  ELSE /\ items[i].itemType = "Concept" =>
            /\ GetInt(Deref(h, ItemExecutionResult(items[i])).executionTime)
                 = SumItemTimes(items[i].steps, h, 1)
            /\ ConceptTimesAddUp(items[i].steps, h, 1)
       /\ ConceptTimesAddUp(items, h, i + 1)

\* C18: in the result that execute returns, every concept's stored execution time
\* is the sum of the execution times stored on its children in that same result.
C18_ConceptTimeIsSumOfChildren ==
  pc = "done" =>
    \A n \in 1..Len(AllScenarioResults(specResult)) :
      LET result == AllScenarioResults(specResult)[n]
      IN /\ ConceptTimesAddUp(result.contexts, heap, 1)
         /\ ConceptTimesAddUp(result.scenarioItems, heap, 1)
         /\ ConceptTimesAddUp(result.tearDownSteps, heap, 1)

\* the messages written so far that carry the Execution Info
WithInfo == { i \in 1..Len(sent) : sent[i].message.currentExecutionInfo # None }

InfoOf(i) == sent[i].message.currentExecutionInfo[1]

\* the failed flag of an optional level (scenario, step) of the Execution Info is
\* there and has the given value
FlagIs(level, value) == level # None /\ level[1].isFailed = value

\* C19 as stated: over the messages of one run, a failed flag of the Execution
\* Info (spec, scenario, step) that was carried true is never carried false later.
C19_FlagsMonotonicOverRun ==
  \A i \in WithInfo : \A j \in WithInfo :
    i < j =>
      /\ InfoOf(i).currentSpec.isFailed => InfoOf(j).currentSpec.isFailed
      /\ FlagIs(InfoOf(i).currentScenario, TRUE) => ~FlagIs(InfoOf(j).currentScenario, FALSE)
      /\ FlagIs(InfoOf(i).currentStep, TRUE) => ~FlagIs(InfoOf(j).currentStep, FALSE)

\* message j carries no failed flag false that the earlier message i carried true:
\* the spec-level flag always, the scenario-level flag when both were written for
\* the same scenario execution, the step-level flag when both were written for the
\* same step
KeepsFlags(log, i, j) ==
  LET before == log[i].message.currentExecutionInfo[1]
      after == log[j].message.currentExecutionInfo[1]
  IN /\ before.currentSpec.isFailed => after.currentSpec.isFailed
     /\ (log[i].at.scenario # 0 /\ SameScenarioExecution(log[i].at, log[j].at)) =>
          (FlagIs(before.currentScenario, TRUE) => FlagIs(after.currentScenario, TRUE))
     /\ (log[i].at.item # << >> /\ log[i].at = log[j].at) =>
          (FlagIs(before.currentStep, TRUE) => FlagIs(after.currentStep, TRUE))

\* C19: the spec-level flag of the Execution Info is never cleared, and once carried
\* true it is carried true by every later message; the scenario-level flag is never
\* carried false after true among the messages written for one scenario execution,
\* and the step-level flag never among the messages written for one step.
C19_FlagsMonotonic ==
  [][ /\ currentExecutionInfo.currentSpec.isFailed
           => currentExecutionInfo'.currentSpec.isFailed
      /\ (Len(sent') = Len(sent) + 1
            /\ sent'[Len(sent')].message.currentExecutionInfo # None) =>
           \A i \in 1..Len(sent) :
             sent[i].message.currentExecutionInfo # None =>
               KeepsFlags(sent', i, Len(sent')) ]_vars

C19_Witness ==
  /\ pc = "done"
  /\ \E i \in WithInfo : \E j \in WithInfo :
       /\ i < j
       /\ FlagIs(InfoOf(i).currentScenario, TRUE)
       /\ FlagIs(InfoOf(j).currentScenario, FALSE)
       /\ InfoOf(j).currentSpec.isFailed
  /\ \E i \in WithInfo : \E j \in WithInfo :
       /\ i < j
       /\ sent[i].at = sent[j].at
       /\ FlagIs(InfoOf(i).currentStep, FALSE)
       /\ FlagIs(InfoOf(j).currentStep, TRUE)

\* C20: at most one request is outstanding: a message is written only when every
\* earlier one has been answered and the answer read, so requests and answers
\* alternate, the n-th answer following the n-th request.
C20_OneRequestOutstanding ==
  /\ Len(sent) - Len(received) \in { 0, 1 }
  /\ request # None <=> Len(sent) = Len(received) + 1
  /\ request # None => /\ response = None
                       /\ request[1] = sent[Len(sent)].message
  /\ response # None => /\ Len(sent) = Len(received)
                        /\ response[1] = received[Len(received)]
  /\ Len(notified) <= Len(sent)

C20_Witness ==
  /\ Len(received) >= 4
  /\ Len(sent) = Len(received) + 1
  /\ request # None
  /\ MessageType(sent[Len(sent)]) = "ExecuteStep"
  /\ Len(sent[Len(sent)].at.item) = 4
  /\ MessageType(sent[Len(received)]) = "StepExecutionStarting"

\* the six lifecycle hooks
HookTypes ==
  { "SpecExecutionStarting", "SpecExecutionEnding",
    "ScenarioExecutionStarting", "ScenarioExecutionEnding",
    "StepExecutionStarting", "StepExecutionEnding" }

IsHook(entry) == MessageType(entry) \in HookTypes

\* C21: the plugins are notified of every hook message written to the runner, once
\* each, of that same message and in the same order, whatever the runner answers
\* later; by the time a hook message is on the runner's connection the plugins
\* have it, and they are notified of nothing else.
C21_PluginsNotified ==
  /\ notified = SelectSeq(sent, IsHook)
  /\ \A i \in 1..Len(sent) :
       IsHook(sent[i]) <=> sent[i].message.currentExecutionInfo # None

C21_Witness ==
  /\ pc = "done"
  /\ { MessageType(notified[i]) : i \in 1..Len(notified) } = HookTypes
  /\ Len(notified) < Len(sent)
  /\ \E i \in 1..Len(received) :
       /\ MessageType(sent[i]) = "StepExecutionStarting"
       /\ ResponseFaulty(received[i])
       /\ \E n \in 1..Len(notified) : notified[n] = sent[i]

IsExecuted(result) == result.skipped # Some(TRUE)

IsScenarioEnd(e) == e.event = "ScenarioEnd"

\* an answer to the before- or after-scenario hook of scenario execution
\* (row, index) was a failure
ScenarioHookFailed(row, index) ==
  \E i \in 1..Len(received) :
    /\ sent[i].at = [row |-> row, scenario |-> index, item |-> << >>]
    /\ MessageType(sent[i]) \in { "ScenarioExecutionStarting", "ScenarioExecutionEnding" }
    /\ ResponseFaulty(received[i])

\* an item of one of the three lists of scenario execution (row, index) returned failed
ScenarioItemFailed(row, index) ==
  \E n \in 1..Len(finished) :
    /\ finished[n].at.row = row
    /\ finished[n].at.scenario = index
    /\ Len(finished[n].at.item) = 2
    /\ finished[n].at.item[1] \in { "contexts", "scenarioItems", "tearDownSteps" }
    /\ finished[n].failed

\* C22: the result of every scenario execution that was not skipped is failed
\* exactly when its before-scenario hook, one of its executed context, body or
\* tear-down items, or its after-scenario hook failed; and the flags reported
\* with ScenarioEnd are, in order, the flags stored on those results.
C22_ScenarioFailedFlag ==
  LET executed == { k \in 1..Len(ReturnedScenarioResults) :
                      IsExecuted(ReturnedScenarioResults[k]) }
      \* scenario execution (row, index) comes before that of result k
      Earlier(row, index, k) ==
        \/ row < ReturnedScenarioResults[k].row
        \/ row = ReturnedScenarioResults[k].row /\ index < ReturnedScenarioResults[k].heading
      \* the executed scenario executions that returned before that of result k
      Rank(k) ==
        Cardinality({ << ReturnedScenarioResults[j].row, ReturnedScenarioResults[j].heading >> :
                        j \in { i \in executed :
                                  Earlier(ReturnedScenarioResults[i].row,
                                          ReturnedScenarioResults[i].heading, k) } })
      ends == SelectSeq(reported, IsScenarioEnd)
  IN \A k \in executed :
       LET result == ReturnedScenarioResults[k]
       IN /\ Rank(k) < Len(ends)
          /\ ends[Rank(k) + 1].arg = result.failed
          /\ result.failed <=>
               \/ ScenarioHookFailed(result.row, result.heading)
               \/ ScenarioItemFailed(result.row, result.heading)

C22_Witness ==
  /\ pc = "done"
  /\ specification = FlatSpecification
  /\ Len(specResult.scenarioResults) = 1
  /\ specResult.scenarioResults[1].failed
  /\ specResult.scenarioResults[1].preHookFailure = None
  /\ specResult.scenarioResults[1].postHookFailure = None
  /\ ~ContextFailed([row |-> 0, scenario |-> 1])
  /\ ~BodyFailed([row |-> 0, scenario |-> 1])
  /\ \E n \in 1..Len(finished) :
       finished[n].at.item = << "tearDownSteps", 2 >> /\ finished[n].failed

\* the events named name among the first n reported
EventsUpTo(n, name) == { i \in 1..n : reported[i].event = name }

\* C23: by the time the scenario ends, every ConceptStart reported has been
\* followed by its ConceptEnd: at each ScenarioEnd as many concepts have ended as
\* have started, and no concept has ended that had not started.
C23_ConceptEndReported ==
  \A n \in 1..Len(reported) :
    /\ Cardinality(EventsUpTo(n, "ConceptEnd")) <= Cardinality(EventsUpTo(n, "ConceptStart"))
    /\ reported[n].event = "ScenarioEnd" =>
         Cardinality(EventsUpTo(n, "ConceptEnd")) = Cardinality(EventsUpTo(n, "ConceptStart"))

\* C24: in the Execution Info of every hook message written, a failed current step
\* comes with a failed current scenario, and a failed current scenario with a
\* failed current spec.
C24_FlagsPropagateUpward ==
  \A i \in WithInfo :
    /\ FlagIs(InfoOf(i).currentStep, TRUE) => FlagIs(InfoOf(i).currentScenario, TRUE)
    /\ FlagIs(InfoOf(i).currentScenario, TRUE) => InfoOf(i).currentSpec.isFailed

\* message b may be the one written right after message a: the hooks of a step
\* enclose at most one ExecuteStep and nothing else, the hooks of a scenario
\* enclose the steps of that scenario execution only, and the hooks of the
\* specification enclose the scenarios
MayFollow(a, b) ==
  LET ta == MessageType(a)
      tb == MessageType(b)
  IN \/ /\ ta \in { "SpecExecutionStarting", "ScenarioExecutionEnding" }
        /\ tb \in { "ScenarioExecutionStarting", "SpecExecutionEnding" }
        /\ (ta = "ScenarioExecutionEnding" /\ tb = "ScenarioExecutionStarting") =>
             ~SameScenarioExecution(a.at, b.at)
     \/ /\ ta \in { "ScenarioExecutionStarting", "StepExecutionEnding" }
        /\ tb \in { "StepExecutionStarting", "ScenarioExecutionEnding" }
        /\ SameScenarioExecution(a.at, b.at)
        /\ (ta = "StepExecutionEnding" /\ tb = "StepExecutionStarting") => a.at # b.at
     \/ /\ ta = "StepExecutionStarting"
        /\ tb \in { "ExecuteStep", "StepExecutionEnding" }
        /\ a.at = b.at
     \/ /\ ta = "ExecuteStep"
        /\ tb = "StepExecutionEnding"
        /\ a.at = b.at

\* C25: the messages written to the runner are well nested: SpecExecutionStarting
\* comes first, every message may follow the one before it, nothing follows
\* SpecExecutionEnding, and when execute has returned from a specification that is
\* not skipped SpecExecutionEnding is the last one.
C25_MessagesWellNested ==
  /\ sent # << >> => MessageType(sent[1]) = "SpecExecutionStarting"
  /\ \A i \in 2..Len(sent) : MayFollow(sent[i - 1], sent[i])
  /\ (pc = "done" /\ ~errMap.specErrs) =>
       /\ sent # << >>
       /\ MessageType(sent[Len(sent)]) = "SpecExecutionEnding"

C25_Witness ==
  /\ pc = "done"
  /\ specification = FlatSpecification
  /\ Len(sent) >= 12
  /\ \E i \in 2..Len(sent) :
       /\ MessageType(sent[i - 1]) = "StepExecutionStarting"
       /\ MessageType(sent[i]) = "StepExecutionEnding"
  /\ \E i \in 2..Len(sent) : MessageType(sent[i]) = "ExecuteStep"

====
